---- MODULE Spec2Model ----
(***************************************************************************)
(* A model of summarize-code-base: the directory walk (traverseDirectory), *)
(* the file classifier (isTextFile), the content extractors                *)
(* (readFileContent and the PDF / DOCX / DOC helpers) and the report       *)
(* assembly (generateProjectSummary, driven by main).                      *)
(*                                                                         *)
(* A JavaScript string is a sequence of tokens (each token a TLA+ string   *)
(* standing for a run of characters); concatenation is \o.  A file name is *)
(* a string whose tokens are its dot-separated parts and the dots, so that *)
(* path.extname and toLowerCase are computed, not assumed.  A path is a    *)
(* sequence of names.                                                      *)
(***************************************************************************)
EXTENDS Integers, Sequences, FiniteSets, TLC

(***************************************************************************)
(* Bounds of the model.                                                    *)
(***************************************************************************)
\* The largest number of entries (files, directories, links) beneath the root.
MaxNodes == 3

(***************************************************************************)
(* Generic helpers on sequences.                                           *)
(***************************************************************************)
Last(s) == s[Len(s)]

Front(s) == SubSeq(s, 1, Len(s) - 1)

Range(s) == {s[i] : i \in DOMAIN s}

IsPrefix(p, q) == Len(p) <= Len(q) /\ SubSeq(q, 1, Len(p)) = p

NL == "\n"

(***************************************************************************)
(* Configuration: the ignore sets of project_summary.js.                   *)
(***************************************************************************)
Plain(s) == <<s>>

DotName(s) == <<".", s>>

WithExt(b, e) == <<b, ".", e>>

IGNORED_DIRS ==
    {Plain(s) : s \in {"node_modules", "dist", "build", "venv", "env", "__pycache__",
                       "logs", "tmp", "temp", "coverage", "out", "vendor", "Pods",
                       "xcuserdata", "__MACOSX"}}
    \cup
    {DotName(s) : s \in {"git", "vscode", "idea", "venv", "pytest_cache", "cache",
                         "config", "husky", "next", "nuxt", "vite", "svelte-kit",
                         "nyc_output", "build", "swiftpm", "xcworkspace", "terraform",
                         "vagrant", "circleci"}}

IGNORED_FILES ==
    { WithExt("package-lock", "json"), DotName("env"),
      <<".", "env", ".", "local">>, <<".", "env", ".", "development">>,
      <<".", "env", ".", "production">>,
      WithExt("poetry", "lock"), WithExt("Pipfile", "lock"), WithExt("yarn", "lock"),
      WithExt("pnpm-lock", "yaml"), WithExt("composer", "lock"),
      WithExt("Package", "resolved"), WithExt("terraform", "tfstate"),
      <<"terraform", ".", "tfstate", ".", "backup">>,
      Plain("LICENSE"), WithExt("LICENSE", "txt"),
      WithExt("CHANGELOG", "md"), WithExt("CHANGELOG", "txt"),
      WithExt("CONTRIBUTING", "md"), WithExt("CONTRIBUTING", "txt"),
      WithExt("CODE_OF_CONDUCT", "md"), WithExt("CODE_OF_CONDUCT", "txt"),
      WithExt("SECURITY", "md"), WithExt("SECURITY", "txt"),
      DotName("DS_Store") }

NON_TEXT_EXTENSIONS ==
    {DotName(s) : s \in
        {"png", "jpg", "jpeg", "gif", "bmp", "svg", "ico", "webp",
         "exe", "dll", "so", "o", "class", "pyc", "wasm", "jar", "bundle",
         "zip", "tar", "gz", "rar", "7z", "tgz", "bz2",
         "mp3", "wav", "mp4", "avi", "mov", "flac", "ogg", "mkv",
         "ttf", "otf", "woff", "woff2", "eot",
         "DS_Store", "map", "sqlite3", "db", "lock", "iml",
         "sublime-project", "sublime-workspace", "idea",
         "classpath", "project", "xcodeproj", "xcworkspace", "apk", "ipa"}}

(***************************************************************************)
(* String and path primitives.                                             *)
(***************************************************************************)
\* String.prototype.toLowerCase on one token: the tokens that hold upper-case
\* letters in the names and extensions this model uses.
LowerToken(t) ==
    CASE t = "PNG" -> "png"
      [] t = "PDF" -> "pdf"
      [] t = "DS_Store" -> "ds_store"
      [] t = "LICENSE" -> "license"
      [] OTHER -> t

toLowerCase(s) == [i \in DOMAIN s |-> LowerToken(s[i])]

\* Index of the last "." token of a name, 0 when there is none.
LastDot(name) ==
    LET dots == {i \in DOMAIN name : name[i] = "."}
    IN  IF dots = {} THEN 0 ELSE CHOOSE i \in dots : \A j \in dots : j <= i

path_basename(p) == IF p = <<>> THEN <<>> ELSE Last(p)

path_extname_FirstDot(p) ==
    LET name == path_basename(p)
        dots == {i \in DOMAIN name : name[i] = "."}
        d == IF dots = {} THEN 0 ELSE CHOOSE i \in dots : \A j \in dots : i <= j
    IN  IF d <= 1 THEN <<>> ELSE SubSeq(name, d, Len(name))

\* path.extname: from the last dot of the basename to its end; empty when there
\* is no dot or when the only dot is the first character of the basename.
path_extname(p) ==
    LET name == path_basename(p)
        d == LastDot(name)
    IN  IF d <= 1 THEN <<>> ELSE SubSeq(name, d, Len(name))

path_join(dirPath, name) == Append(dirPath, name)

\* path.relative(from, to) for a path that lies beneath from.
path_relative(from, to) ==
    IF IsPrefix(from, to) THEN SubSeq(to, Len(from) + 1, Len(to)) ELSE to

\* A path rendered as the characters of a string: its names joined by "/".
RECURSIVE PathString(_)
PathString(p) ==
    IF p = <<>> THEN <<>>
    ELSE IF Len(p) = 1 THEN p[1]
    ELSE p[1] \o <<"/">> \o PathString(Tail(p))

ExtIsDocument(ext) ==
    ext = DotName("pdf") \/ ext = DotName("docx") \/ ext = DotName("doc")

isTextFile_NoLowerCase(filePath) ==
    LET ext == path_extname(filePath)
    IN  IF ExtIsDocument(ext) THEN TRUE
        ELSE ext = <<>> \/ ext \notin NON_TEXT_EXTENSIONS

isTextFile(filePath) ==
    LET ext == toLowerCase(path_extname(filePath))
    IN  IF ExtIsDocument(ext) THEN TRUE
        ELSE ext = <<>> \/ ext \notin NON_TEXT_EXTENSIONS

(***************************************************************************)
(* The environment: the file system beneath the root and what the readers  *)
(* and parsers answer.                                                     *)
(***************************************************************************)
\* The root directory the tool is pointed at (an absolute path).
targetDir == << Plain("home"), Plain("demo") >>

\* The kinds of entry fs.readdir reports (Dirent): isDirectory(), isFile(),
\* or neither (symbolic link, socket, FIFO, device).
EntryTypes ==
    { [name |-> Plain("node_modules"),           kind |-> "dir"],
      [name |-> Plain("src"),                    kind |-> "dir"],
      [name |-> Plain("build"),                  kind |-> "file"],
      [name |-> WithExt("a", "txt"),             kind |-> "file"],
      [name |-> WithExt("image", "PNG"),         kind |-> "file"],
      [name |-> WithExt("notes", "pdf"),         kind |-> "file"],
      [name |-> WithExt("r", "docx"),            kind |-> "file"],
      [name |-> WithExt("old", "doc"),           kind |-> "file"],
      [name |-> WithExt("package-lock", "json"), kind |-> "file"],
      [name |-> Plain("link"),                   kind |-> "other"] }

Node(t, s) == [name |-> t.name, kind |-> t.kind, sub |-> s]

\* All directory contents with exactly n entries in total (at every depth):
\* a sequence, in listing order, of entries with distinct names, each directory
\* entry holding its own contents.
RECURSIVE ForestsOf(_)
ForestsOf(n) ==
    IF n = 0 THEN { <<>> }
    ELSE UNION { { <<Node(t, s)>> \o rest :
                       s \in (IF t.kind = "dir" THEN ForestsOf(k - 1)
                              ELSE IF k = 1 THEN { <<>> } ELSE {}),
                       rest \in { r \in ForestsOf(n - k) :
                                     \A j \in DOMAIN r : r[j].name # t.name } }
                 : k \in 1..n, t \in EntryTypes }

Trees == UNION { ForestsOf(n) : n \in 0..MaxNodes }

\* The contents of the directory at relative path rel, or the reason there is
\* none.
RECURSIVE Lookup(_, _)
Lookup(forest, rel) ==
    IF rel = <<>> THEN [found |-> TRUE, list |-> forest]
    ELSE LET hit == {i \in DOMAIN forest : forest[i].name = Head(rel)}
         IN  IF hit = {} THEN [found |-> FALSE, list |-> <<>>]
             ELSE LET e == forest[CHOOSE i \in hit : TRUE]
                  IN  IF e.kind = "dir" THEN Lookup(e.sub, Tail(rel))
                      ELSE [found |-> FALSE, list |-> <<>>]

Dirents(forest) ==
    [i \in DOMAIN forest |-> [name |-> forest[i].name, kind |-> forest[i].kind]]

(***************************************************************************)
(* Thrown values.  A rejection or exception carries any JavaScript value:  *)
(* an Error with a message, a value with no message property (a string, a  *)
(* bare object), or null / undefined.                                      *)
(***************************************************************************)
ErrorOf(msg) == [kind |-> "Error", message |-> msg]

NoMessageValue == [kind |-> "nomsg", message |-> <<>>]

NullishValue == [kind |-> "nullish", message |-> <<>>]

\* What evaluating `error.message` inside a template string or as an argument
\* does: it throws a TypeError when error is null or undefined.
TypeErrorValue == ErrorOf(<<"TypeError: Cannot read properties">>)

MessageReadThrows(e) == e.kind = "nullish"

\* error.message.includes(needle): throws a TypeError when message is undefined.
IncludesThrows(e) == e.kind # "Error"

Includes(msg, needle) == needle \in Range(msg)

\* String.prototype.trim() === '' : only white space.
TrimIsEmpty(text) == \A i \in DOMAIN text : text[i] \in {" ", NL}

\* The result of running an async function: it resolves with a string or
\* rejects with a thrown value.
Resolved(v) == [ok |-> TRUE, value |-> v, error |-> NullishValue]

Rejected(e) == [ok |-> FALSE, value |-> <<>>, error |-> e]

\* What the environment answers to one extraction: step says how far the
\* backend gets ("readfail": fs.readFile rejects; "throw": the parser throws
\* `thrown`; "ok": it returns `text`, which is undefined when `defined` is
\* FALSE, and `pages` pages).
Outcome(step, thrown, text, defined) ==
    [step |-> step, thrown |-> thrown, text |-> text, defined |-> defined, pages |-> 2]

FsError == ErrorOf(<<"EACCES: permission denied">>)

\* What the PDF backend throws for a document it cannot open without a
\* password: its two messages.
EncryptionErrors ==
    { ErrorOf(<<"Incorrect ", "Password">>), ErrorOf(<<"No ", "password", " given">>) }

ThrownValues ==
    EncryptionErrors \cup
    { ErrorOf(<<"file is ", "encrypted">>),
      ErrorOf(<<"Invalid PDF structure">>),
      NoMessageValue,
      NullishValue }

Contents == { <<>>, <<"hello">>, <<"hello", NL>> }

PlainOutcomes ==
    { Outcome("ok", NullishValue, t, TRUE) : t \in Contents }
    \cup { Outcome("readfail", FsError, <<>>, FALSE) }

ParserOutcomes ==
    { Outcome("ok", NullishValue, t, TRUE) : t \in { <<>>, <<" ", NL>>, <<"hello">> } }
    \cup { Outcome("ok", NullishValue, <<>>, FALSE) }
    \cup { Outcome("throw", e, <<>>, FALSE) : e \in ThrownValues }

PdfOutcomes == ParserOutcomes \cup { Outcome("readfail", FsError, <<>>, FALSE) }

OutcomesFor(filePath) ==
    LET ext == toLowerCase(path_extname(filePath))
    IN  IF ext = DotName("pdf") THEN PdfOutcomes
        ELSE IF ext = DotName("docx") \/ ext = DotName("doc") THEN ParserOutcomes
        ELSE PlainOutcomes

(***************************************************************************)
(* The extractors (pdf-parse revision of project_summary.js).              *)
(***************************************************************************)
extractPdfText_NoTrim(pdfPath, o) ==
    LET base == path_basename(pdfPath)
        caught(e) ==
            IF MessageReadThrows(e) THEN Rejected(TypeErrorValue)
            ELSE IF IncludesThrows(e) THEN Rejected(TypeErrorValue)
            ELSE IF Includes(e.message, "Password") \/ Includes(e.message, "encrypted")
                 THEN Resolved(<<"--- Error: PDF ">> \o base
                               \o <<" is likely password-protected or encrypted. ---">>)
            ELSE Resolved(<<"--- Error extracting text from PDF ">> \o base
                          \o <<" using pdf-parse. ---">>)
    IN  IF o.step = "readfail" \/ o.step = "throw" THEN caught(o.thrown)
        ELSE IF ~o.defined \/ o.text = <<>>
             THEN Resolved(<<"--- No text extracted from PDF ">> \o base
                           \o <<" by pdf-parse. The PDF may be empty or contain only images. ---">>)
        ELSE Resolved(<<"[Extracted from ", ToString(o.pages), " page(s)]", NL, NL>> \o o.text)

extractPdfText(pdfPath, o) ==
    LET base == path_basename(pdfPath)
        caught(e) ==
            IF MessageReadThrows(e) THEN Rejected(TypeErrorValue)
            ELSE IF IncludesThrows(e) THEN Rejected(TypeErrorValue)
            ELSE IF Includes(e.message, "Password") \/ Includes(e.message, "encrypted")
                 THEN Resolved(<<"--- Error: PDF ">> \o base
                               \o <<" is likely password-protected or encrypted. ---">>)
            ELSE Resolved(<<"--- Error extracting text from PDF ">> \o base
                          \o <<" using pdf-parse. ---">>)
    IN  IF o.step = "readfail" \/ o.step = "throw" THEN caught(o.thrown)
        ELSE IF ~o.defined \/ o.text = <<>> \/ TrimIsEmpty(o.text)
             THEN Resolved(<<"--- No text extracted from PDF ">> \o base
                           \o <<" by pdf-parse. The PDF may be empty or contain only images. ---">>)
        ELSE Resolved(<<"[Extracted from ", ToString(o.pages), " page(s)]", NL, NL>> \o o.text)

extractDocTextDirectly(filePath, o) ==
    LET base == path_basename(filePath)
    IN  IF o.step = "throw" THEN
            IF MessageReadThrows(o.thrown) THEN Rejected(TypeErrorValue)
            ELSE Resolved(<<"--- Error extracting text from DOC ">> \o base
                          \o <<" using doc-parser. The library might not support this specific file or format. ---">>)
        ELSE IF ~o.defined \/ o.text = <<>> \/ TrimIsEmpty(o.text)
             THEN Resolved(<<"--- No text extracted from DOC ">> \o base
                           \o <<" by doc-parser. ---">>)
        ELSE Resolved(o.text)

extractDocxText(filePath, o) ==
    LET base == path_basename(filePath)
    IN  IF o.step = "throw" THEN
            IF MessageReadThrows(o.thrown) THEN Rejected(TypeErrorValue)
            ELSE Resolved(<<"--- Error extracting text from DOCX ">> \o base \o <<". ---">>)
        ELSE IF ~o.defined \/ o.text = <<>>
             THEN Resolved(<<"--- No text extracted from DOCX ">> \o base \o <<". ---">>)
        ELSE Resolved(o.text)

\* The try block of readFileContent: dispatch on the lower-cased extension.
Dispatch(filePath, o) ==
    LET ext == toLowerCase(path_extname(filePath))
    IN  IF ext = DotName("pdf") THEN extractPdfText(filePath, o)
        ELSE IF ext = DotName("docx") THEN extractDocxText(filePath, o)
        ELSE IF ext = DotName("doc") THEN extractDocTextDirectly(filePath, o)
        ELSE IF o.step = "ok" THEN Resolved(o.text)
        ELSE Rejected(o.thrown)

readFileContent_NoCatch(filePath, root, o) == Dispatch(filePath, o)

readFileContent_Basename(filePath, root, o) ==
    LET r == Dispatch(filePath, o)
    IN  IF r.ok THEN r
        ELSE IF MessageReadThrows(r.error) THEN Rejected(TypeErrorValue)
        ELSE Resolved(<<"--- Error reading file: ">> \o path_basename(filePath)
                      \o <<". Content omitted. ---">>)

readFileContent(filePath, root, o) ==
    LET r == Dispatch(filePath, o)
        relativePath == path_relative(root, filePath)
    IN  IF r.ok THEN r
        ELSE IF MessageReadThrows(r.error) THEN Rejected(TypeErrorValue)
        ELSE Resolved(<<"--- Error reading file: ">> \o PathString(relativePath)
                      \o <<". Content omitted. ---">>)

(***************************************************************************)
(* The state of one run of the tool.                                       *)
(***************************************************************************)
VARIABLES
    rootKind,      \* what the root path is on disk: "dir", "file" or "missing"
    tree,          \* the contents of the root directory
    pc,            \* where main / generateProjectSummary stands
    stack,         \* the active calls of traverseDirectory, innermost last
    textFiles,     \* textFilesFound: the collected absolute paths
    structure,     \* the string returned by the outermost traverseDirectory
    outputBuffer,  \* the report under construction
    idx,           \* position of the for-of loop over textFilesFound
    console,       \* what console.log printed of the report
    clipboard,     \* what clipboardy.write received
    exitCode,      \* process exit code, -1 while running
    listed,        \* history: directories handed to fs.readdir, in call order
    failed,        \* history: directories whose listing failed
    results,       \* history: the strings readFileContent resolved with, in order
    called,        \* a function called on its own: its name and arguments
    returned,      \* what that call returned, threw or sent
    started,       \* history: the indices of textFilesFound handed to readFileContent
    ports,         \* web: what listening on each port of 127.0.0.1 would answer
    probe,         \* web: the temporary server of the current getAvailablePort call
    gapPromise,    \* web: the promise of the outermost getAvailablePort call
    server,        \* web: the HTTP server of renderAndServe
    renderPromise, \* web: the promise returned by renderAndServe
    browser,       \* web: the addresses openBrowser was called with
    fetchState,    \* transcripts: the state of the fetch for each video URL
    arrival        \* transcripts: the URLs in the order their fetches completed

webVars == << ports, probe, gapPromise, server, renderPromise, browser >>

fetchVars == << fetchState, arrival >>

\* What a run of the summary tool leaves alone.
sideVars == << called, returned, webVars, fetchVars >>

vars == << rootKind, tree, pc, stack, textFiles, structure, outputBuffer, idx,
           console, clipboard, exitCode, listed, failed, results, called, returned,
           started, webVars, fetchVars >>

\* The web renderer has not been called.
WebIdle ==
    /\ ports = <<>> /\ probe = [st |-> "none"] /\ gapPromise = [st |-> "none"]
    /\ server = "none" /\ renderPromise = "none" /\ browser = <<>>

\* No transcript fetch has been started.
FetchIdle == fetchState = <<>> /\ arrival = <<>>

\* No function has been called on its own.
NoCall == [fn |-> "none"]

projectName == path_basename(targetDir)

(***************************************************************************)
(* traverseDirectory.                                                      *)
(***************************************************************************)
\* A call of traverseDirectory: st = "call" before fs.readdir has answered,
\* "loop" while the for loop runs over filteredEntries (i is 1-based).
Frame(dirPath, structurePrefix) ==
    [ dirPath |-> dirPath, structurePrefix |-> structurePrefix, st |-> "call",
      entries |-> <<>>, i |-> 1, structureOutput |-> <<>> ]

Top == stack[Len(stack)]

\* fs.readdir(dirPath, { withFileTypes: true }) when it succeeds.
readdir(dirPath) == Dirents(Lookup(tree, path_relative(targetDir, dirPath)).list)

CanList(dirPath) ==
    rootKind = "dir" /\ Lookup(tree, path_relative(targetDir, dirPath)).found

KeepEntry_All(entry) == TRUE

\* The predicate of entries.filter(...): the name alone decides.
KeepEntry(entry) == entry.name \notin IGNORED_DIRS

filteredEntries(entries) == SelectSeq(entries, KeepEntry)

IsLast_Raw(f) == f.i = Len(readdir(f.dirPath))

\* isLast: the entry is the last of the filtered listing.
IsLast(f) == f.i = Len(f.entries)

connector_NeverLast(isLast) == "|-- "

\* The box-drawing connectors and continuation bar, written in ASCII.
connector(isLast) == IF isLast THEN "+-- " ELSE "|-- "

nextStructurePrefix(f) ==
    Append(f.structurePrefix, IF IsLast(f) THEN "    " ELSE "|   ")

\* structureOutput += linePrefix + entry.name + "\n"
StructureLine(f) ==
    f.structurePrefix \o <<connector(IsLast(f))>> \o f.entries[f.i].name \o <<NL>>

\* The test guarding textFiles.push(fullPath).
Collects(entry, fullPath) ==
    entry.name \notin IGNORED_FILES /\ isTextFile(fullPath)

push_Front(arr, x) == <<x>> \o arr

\* Array.prototype.push.
push(arr, x) == Append(arr, x)

SetTop(f) == [stack EXCEPT ![Len(stack)] = f]

ReturnFrom_Assign(out) ==
    IF Len(stack) = 1
    THEN /\ stack' = <<>>
         /\ structure' = out
         /\ pc' = "section2"
    ELSE LET parent == stack[Len(stack) - 1]
         IN  /\ stack' = Append(SubSeq(stack, 1, Len(stack) - 2),
                                [parent EXCEPT !.structureOutput = out,
                                               !.i = @ + 1])
             /\ UNCHANGED << structure, pc >>

\* A call returns `out` to its caller: the caller appends it to its own
\* structureOutput and moves to the next entry; the outermost call hands it
\* to generateProjectSummary.
ReturnFrom(out) ==
    IF Len(stack) = 1
    THEN /\ stack' = <<>>
         /\ structure' = out
         /\ pc' = "section2"
    ELSE LET parent == stack[Len(stack) - 1]
         IN  /\ stack' = Append(SubSeq(stack, 1, Len(stack) - 2),
                                [parent EXCEPT !.structureOutput = @ \o out,
                                               !.i = @ + 1])
             /\ UNCHANGED << structure, pc >>

ReaddirOk ==
    /\ pc = "traverse" /\ Top.st = "call"
    /\ CanList(Top.dirPath)
    /\ stack' = SetTop([Top EXCEPT !.st = "loop",
                                   !.entries = filteredEntries(readdir(Top.dirPath))])
    /\ listed' = Append(listed, Top.dirPath)
    /\ UNCHANGED << rootKind, tree, sideVars, started, results,
                    pc, textFiles, structure, outputBuffer, idx,
                    console, clipboard, exitCode, failed >>

ReaddirFail_Rethrow ==
    /\ pc = "traverse" /\ Top.st = "call"
    /\ listed' = Append(listed, Top.dirPath)
    /\ failed' = failed \cup {Top.dirPath}
    /\ pc' = "exit" /\ exitCode' = 1
    /\ UNCHANGED << rootKind, tree, sideVars, started, results,
                    stack, textFiles, structure, outputBuffer, idx,
                    console, clipboard >>

\* fs.readdir rejects (ENOENT, ENOTDIR, EACCES, ...): the catch block logs and
\* the call returns the structureOutput built so far, which is empty.
ReaddirFail ==
    /\ pc = "traverse" /\ Top.st = "call"
    /\ listed' = Append(listed, Top.dirPath)
    /\ failed' = failed \cup {Top.dirPath}
    /\ ReturnFrom(Top.structureOutput)
    /\ UNCHANGED << rootKind, tree, sideVars, started, results,
                    textFiles, outputBuffer, idx,
                    console, clipboard, exitCode >>

VisitDirectory ==
    /\ pc = "traverse" /\ Top.st = "loop" /\ Top.i <= Len(Top.entries)
    /\ Top.entries[Top.i].kind = "dir"
    /\ LET fullPath == path_join(Top.dirPath, Top.entries[Top.i].name)
       IN  stack' = Append(SetTop([Top EXCEPT !.structureOutput = @ \o StructureLine(Top)]),
                           Frame(fullPath, nextStructurePrefix(Top)))
    /\ UNCHANGED << rootKind, tree, sideVars, started, results,
                    pc, textFiles, structure, outputBuffer, idx,
                    console, clipboard, exitCode, listed, failed >>

VisitFile_NoTypeTest ==
    /\ pc = "traverse" /\ Top.st = "loop" /\ Top.i <= Len(Top.entries)
    /\ Top.entries[Top.i].kind # "dir"
    /\ LET entry == Top.entries[Top.i]
           fullPath == path_join(Top.dirPath, entry.name)
       IN  /\ stack' = SetTop([Top EXCEPT !.structureOutput = @ \o StructureLine(Top),
                                          !.i = @ + 1])
           /\ textFiles' = IF Collects(entry, fullPath)
                           THEN push(textFiles, fullPath) ELSE textFiles
    /\ UNCHANGED << rootKind, tree, sideVars, started, results,
                    pc, structure, outputBuffer, idx,
                    console, clipboard, exitCode, listed, failed >>

VisitFile ==
    /\ pc = "traverse" /\ Top.st = "loop" /\ Top.i <= Len(Top.entries)
    /\ Top.entries[Top.i].kind = "file"
    /\ LET entry == Top.entries[Top.i]
           fullPath == path_join(Top.dirPath, entry.name)
       IN  /\ stack' = SetTop([Top EXCEPT !.structureOutput = @ \o StructureLine(Top),
                                          !.i = @ + 1])
           /\ textFiles' = IF Collects(entry, fullPath)
                           THEN push(textFiles, fullPath) ELSE textFiles
    /\ UNCHANGED << rootKind, tree, sideVars, started, results,
                    pc, structure, outputBuffer, idx,
                    console, clipboard, exitCode, listed, failed >>

VisitOther_Follow ==
    /\ pc = "traverse" /\ Top.st = "loop" /\ Top.i <= Len(Top.entries)
    /\ Top.entries[Top.i].kind \notin {"dir", "file"}
    /\ LET fullPath == path_join(Top.dirPath, Top.entries[Top.i].name)
       IN  stack' = Append(SetTop([Top EXCEPT !.structureOutput = @ \o StructureLine(Top)]),
                           Frame(fullPath, nextStructurePrefix(Top)))
    /\ UNCHANGED << rootKind, tree, sideVars, started, results,
                    pc, textFiles, structure, outputBuffer, idx,
                    console, clipboard, exitCode, listed, failed >>

\* Neither isDirectory() nor isFile(): the entry only gets its line.
VisitOther ==
    /\ pc = "traverse" /\ Top.st = "loop" /\ Top.i <= Len(Top.entries)
    /\ Top.entries[Top.i].kind \notin {"dir", "file"}
    /\ stack' = SetTop([Top EXCEPT !.structureOutput = @ \o StructureLine(Top),
                                   !.i = @ + 1])
    /\ UNCHANGED << rootKind, tree, sideVars, started, results,
                    pc, textFiles, structure, outputBuffer, idx,
                    console, clipboard, exitCode, listed, failed >>

TraverseReturn ==
    /\ pc = "traverse" /\ Top.st = "loop" /\ Top.i > Len(Top.entries)
    /\ ReturnFrom(Top.structureOutput)
    /\ UNCHANGED << rootKind, tree, sideVars, started, results,
                    textFiles, outputBuffer, idx,
                    console, clipboard, exitCode, listed, failed >>

(***************************************************************************)
(* main and generateProjectSummary.                                        *)
(***************************************************************************)
Section1Header == <<"--- Section 1: Folder Structure ---", NL>>

Section2Header(n) ==
    <<NL, "--- Section 2: File Contents (", ToString(n), " files) ---", NL>>

NoFilesLine == <<"No text files found to display.", NL>>

FileHeader(relativePath) ==
    <<NL, "--- File: ">> \o PathString(relativePath) \o <<" ---", NL>>

FileFooter(relativePath) ==
    <<"--- End of File: ">> \o PathString(relativePath) \o <<" ---", NL>>

endsWith_Always(content, t) == TRUE

\* String.prototype.endsWith for a one-character argument.
endsWith(content, t) == content # <<>> /\ Last(content) = t

Block_SkipEmpty(filePath, content) ==
    LET relativePath == path_relative(targetDir, filePath)
    IN  IF content = <<>> THEN <<>>
        ELSE FileHeader(relativePath)
             \o content
             \o (IF ~endsWith(content, NL) THEN <<NL>> ELSE <<>>)
             \o FileFooter(relativePath)

Block_TrimEnd(filePath, content) ==
    LET relativePath == path_relative(targetDir, filePath)
        RECURSIVE trimEnd(_)
        trimEnd(c) == IF c # <<>> /\ Last(c) \in {NL, " "} THEN trimEnd(Front(c)) ELSE c
    IN  FileHeader(relativePath)
        \o trimEnd(content)
        \o (IF trimEnd(content) # <<>> THEN <<NL>> ELSE <<>>)
        \o FileFooter(relativePath)

\* The text one iteration of the for-of loop appends for a file.
Block(filePath, content) ==
    LET relativePath == path_relative(targetDir, filePath)
    IN  FileHeader(relativePath)
        \o content
        \o (IF content # <<>> /\ ~endsWith(content, NL) THEN <<NL>> ELSE <<>>)
        \o FileFooter(relativePath)

RootIsValid_ExistsOnly == rootKind # "missing"

\* fs.stat(targetDir) and stats.isDirectory(): does main go on?
RootIsValid == rootKind = "dir"

\* main, step 1: validate the directory; process.exit(1) when it is missing
\* or not a directory.
Validate ==
    /\ pc = "start"
    /\ IF RootIsValid
       THEN pc' = "generate" /\ UNCHANGED exitCode
       ELSE pc' = "exit" /\ exitCode' = 1
    /\ UNCHANGED << rootKind, tree, sideVars, started, results,
                    stack, textFiles, structure, outputBuffer, idx,
                    console, clipboard, listed, failed >>

\* Section 1 header and root label, then the outermost traverseDirectory call.
BeginSummary ==
    /\ pc = "generate"
    /\ outputBuffer' = Section1Header \o projectName \o <<NL>>
    /\ textFiles' = <<>>
    /\ results' = <<>>
    /\ started' = <<>>
    /\ stack' = << Frame(targetDir, <<>>) >>
    /\ pc' = "traverse"
    /\ UNCHANGED << rootKind, tree, sideVars,
                    structure, idx, console, clipboard, exitCode,
                    listed, failed >>

Section2_NoElse ==
    /\ pc = "section2"
    /\ outputBuffer' = outputBuffer \o structure \o Section2Header(Len(textFiles))
    /\ idx' = 1
    /\ pc' = IF Len(textFiles) = 0 THEN "output" ELSE "extract"
    /\ UNCHANGED << rootKind, tree, sideVars, started, results,
                    stack, textFiles,
                    structure, console, clipboard, exitCode, listed, failed >>

\* The structure is appended, then the Section 2 header with the file count,
\* then the no-files line when nothing was collected.
Section2 ==
    /\ pc = "section2"
    /\ outputBuffer' = outputBuffer \o structure \o Section2Header(Len(textFiles))
                         \o (IF Len(textFiles) = 0 THEN NoFilesLine ELSE <<>>)
    /\ idx' = 1
    /\ pc' = IF Len(textFiles) = 0 THEN "output" ELSE "extract"
    /\ UNCHANGED << rootKind, tree, sideVars, started, results,
                    stack, textFiles, structure, console, clipboard,
                    exitCode, listed, failed >>

ExtractCall_NoAwait ==
    /\ pc = "extract" /\ idx <= Len(textFiles)
    /\ started' = IF idx < Len(textFiles) THEN started \o <<idx, idx + 1>>
                   ELSE Append(started, idx)
    /\ pc' = "reading"
    /\ UNCHANGED << rootKind, tree, sideVars, results,
                    stack, textFiles, structure, outputBuffer, idx,
                    console, clipboard, exitCode, listed, failed >>

\* The loop calls readFileContent for the next collected file and awaits it.
ExtractCall ==
    /\ pc = "extract" /\ idx <= Len(textFiles)
    /\ started' = Append(started, idx)
    /\ pc' = "reading"
    /\ UNCHANGED << rootKind, tree, sideVars, results,
                    stack, textFiles, structure, outputBuffer, idx,
                    console, clipboard, exitCode, listed, failed >>

\* readFileContent settles: on a string the block is appended and the loop
\* moves on; a rejection escapes generateProjectSummary and main's catch
\* handler exits with code 1.
ExtractSettle ==
    /\ pc = "reading"
    /\ \E o \in OutcomesFor(textFiles[idx]) :
          LET r == readFileContent(textFiles[idx], targetDir, o)
          IN  IF r.ok
              THEN /\ outputBuffer' = outputBuffer \o Block(textFiles[idx], r.value)
                   /\ results' = Append(results, r.value)
                   /\ idx' = idx + 1
                   /\ pc' = IF idx + 1 > Len(textFiles) THEN "output" ELSE "extract"
                   /\ UNCHANGED exitCode
              ELSE /\ pc' = "exit" /\ exitCode' = 1
                   /\ UNCHANGED << outputBuffer, idx, results >>
    /\ UNCHANGED << rootKind, tree, sideVars, started,
                    stack, textFiles, structure, console, clipboard,
                    listed, failed >>

\* Output phase: the report is printed, then copied to the clipboard when
\* clipboardy is available and the write succeeds.
Output ==
    /\ pc = "output"
    /\ console' = <<NL>> \o outputBuffer
    /\ \E copied \in BOOLEAN : clipboard' = IF copied THEN outputBuffer ELSE <<>>
    /\ pc' = "done"
    /\ exitCode' = 0
    /\ UNCHANGED << rootKind, tree, sideVars, started, results,
                    stack, textFiles, structure, outputBuffer, idx,
                    listed, failed >>

Init ==
    /\ rootKind \in {"dir", "file", "missing"}
    /\ tree \in (IF rootKind = "dir" THEN Trees ELSE { <<>> })
    /\ pc = "start"
    /\ stack = <<>>
    /\ textFiles = <<>>
    /\ structure = <<>>
    /\ outputBuffer = <<>>
    /\ idx = 1
    /\ console = <<>>
    /\ clipboard = <<>>
    /\ exitCode = -1
    /\ listed = <<>>
    /\ failed = {}
    /\ results = <<>>
    /\ started = <<>>
    /\ called = NoCall
    /\ returned = NoCall
    /\ WebIdle /\ FetchIdle

Next ==
    \/ Validate
    \/ BeginSummary
    \/ ReaddirOk
    \/ ReaddirFail
    \/ VisitDirectory
    \/ VisitFile
    \/ VisitOther
    \/ TraverseReturn
    \/ Section2
    \/ ExtractCall
    \/ ExtractSettle
    \/ Output

Spec == Init /\ [][Next]_vars

\* The event loop runs every continuation that is ready: a step that can be
\* taken is eventually taken.
SpecFair == Spec /\ WF_vars(Next)

(***************************************************************************)
(* Reading the tree, the structure string and the report back.             *)
(***************************************************************************)
\* Every entry of the tree, at every depth, with its absolute path.
RECURSIVE NodesOf(_, _)
NodesOf(forest, base) ==
    UNION { { [path |-> Append(base, forest[i].name), kind |-> forest[i].kind] }
            \cup (IF forest[i].kind = "dir"
                  THEN NodesOf(forest[i].sub, Append(base, forest[i].name))
                  ELSE {})
            : i \in DOMAIN forest }

AllNodes == NodesOf(tree, targetDir)

NameOf(n) == Last(n.path)

ParentDir(n) == Front(n.path)

\* The directory was listed by a call of traverseDirectory and the listing
\* succeeded.
WasRead(dirPath) == dirPath \in Range(listed) /\ dirPath \notin failed

IgnoredDirNodes == {n \in AllNodes : n.kind = "dir" /\ NameOf(n) \in IGNORED_DIRS}

\* The traversal has returned to generateProjectSummary.
Traversed == pc \in {"section2", "extract", "reading", "output", "done"}

\* A string cut at its newlines.
RECURSIVE SplitLines(_)
SplitLines(str) ==
    IF str = <<>> THEN <<>>
    ELSE IF \A i \in DOMAIN str : str[i] # NL THEN << str >>
    ELSE LET k == CHOOSE i \in DOMAIN str :
                      str[i] = NL /\ \A j \in 1..(i - 1) : str[j] # NL
         IN  << SubSeq(str, 1, k - 1) >> \o SplitLines(SubSeq(str, k + 1, Len(str)))

Bars == {"|   ", "    "}

\* The number of continuation segments a structure line starts with.
LineDepth(line) ==
    LET stops == {i \in DOMAIN line : line[i] \notin Bars}
    IN  IF stops = {} THEN Len(line)
        ELSE (CHOOSE i \in stops : \A j \in stops : i <= j) - 1

LineName(line) == SubSeq(line, LineDepth(line) + 2, Len(line))

\* The path, relative to the root, a reader of the tree diagram gives line k:
\* its name under the names of the nearest earlier lines of each lesser depth.
LinePathAt(lines, k) ==
    [d \in 1..(LineDepth(lines[k]) + 1) |->
        LET above == {j \in 1..k : LineDepth(lines[j]) = d - 1}
        IN  IF above = {} THEN <<"?">>
            ELSE LineName(lines[CHOOSE j \in above : \A m \in above : m <= j])]

StructurePaths(str) ==
    LET lines == SplitLines(str)
    IN  [k \in DOMAIN lines |-> LinePathAt(lines, k)]

\* How many lines of the structure string stand for the entry at path.
LineCountIn(paths, path) ==
    Cardinality({k \in DOMAIN paths : paths[k] = path_relative(targetDir, path)})

LineCount(path) == LineCountIn(StructurePaths(structure), path)

\* The relative paths, as printed, that follow each occurrence of a delimiter
\* opening token in the report.
DelimitedPaths(buf, opening) ==
    LET starts == {i \in DOMAIN buf : buf[i] = opening}
        pathAt(i) ==
            IF \A j \in (i + 1)..Len(buf) : buf[j] # " ---" THEN <<>>
            ELSE SubSeq(buf, i + 1,
                        (CHOOSE j \in (i + 1)..Len(buf) :
                            buf[j] = " ---" /\ \A m \in (i + 1)..(j - 1) : buf[m] # " ---") - 1)
        RECURSIVE inOrder(_)
        inOrder(from) ==
            LET rest == {i \in starts : i >= from}
            IN  IF rest = {} THEN <<>>
                ELSE LET i == CHOOSE x \in rest : \A y \in rest : x <= y
                     IN  << pathAt(i) >> \o inOrder(i + 1)
    IN  inOrder(1)

BlockHeaderPaths(buf) == DelimitedPaths(buf, "--- File: ")

BlockFooterPaths(buf) == DelimitedPaths(buf, "--- End of File: ")

PrintedPaths(files) ==
    [i \in DOMAIN files |-> PathString(path_relative(targetDir, files[i]))]

\* The files of a directory's contents in pre-order: each entry in listing
\* order, a subdirectory's files in the position of the subdirectory.  Entries
\* the walk discards and directories whose listing failed contribute nothing.
RECURSIVE PreOrderFiles(_, _)
PreOrderFiles(forest, base) ==
    IF forest = <<>> THEN <<>>
    ELSE LET e == Head(forest)
             p == Append(base, e.name)
             here == IF e.name \in IGNORED_DIRS THEN <<>>
                     ELSE IF e.kind = "file"
                          THEN (IF e.name \notin IGNORED_FILES /\ isTextFile(p)
                                THEN << p >> ELSE <<>>)
                     ELSE IF e.kind = "dir" /\ p \notin failed
                          THEN PreOrderFiles(e.sub, p)
                     ELSE <<>>
         IN  here \o PreOrderFiles(Tail(forest), base)

\* The entries the walk shows, in pre-order, as relative paths.
RECURSIVE PreOrderEntries(_, _)
PreOrderEntries(forest, base) ==
    IF forest = <<>> THEN <<>>
    ELSE LET e == Head(forest)
             p == Append(base, e.name)
             here == IF e.name \in IGNORED_DIRS THEN <<>>
                     ELSE << path_relative(targetDir, p) >>
                          \o (IF e.kind = "dir" /\ p \notin failed
                              THEN PreOrderEntries(e.sub, p) ELSE <<>>)
         IN  here \o PreOrderEntries(Tail(forest), base)

ExpectedFiles == IF targetDir \in failed THEN <<>> ELSE PreOrderFiles(tree, targetDir)

ExpectedEntries == IF targetDir \in failed THEN <<>> ELSE PreOrderEntries(tree, targetDir)

\* Some path at or beneath dirPath has a line in the structure string.
HasLineAtOrBeneath(dirPath) ==
    LET paths == StructurePaths(structure)
    IN  \E k \in DOMAIN paths : IsPrefix(path_relative(targetDir, dirPath), paths[k])

(***************************************************************************)
(* C1.  As stated: every directory with an ignored name, in a directory    *)
(* the walk read, has exactly one line in the structure string returned by *)
(* traverseDirectory and none for its descendants.                         *)
(***************************************************************************)
C1_AsStated ==
    Traversed =>
        \A n \in IgnoredDirNodes :
            WasRead(ParentDir(n)) =>
                /\ LineCount(n.path) = 1
                /\ \A m \in AllNodes :
                      (m # n /\ IsPrefix(n.path, m.path)) => LineCount(m.path) = 0

\* C1, amended: a directory whose name is in the ignored-directory set, at
\* any depth, contributes no line to the structure string returned by
\* traverseDirectory, neither for itself nor for any of its descendants.
C1_IgnoredDirHasNoLine ==
    Traversed =>
        \A n \in IgnoredDirNodes : ~HasLineAtOrBeneath(n.path)

\* C1 witness: a finished walk of a tree with an ignored directory two levels
\* down that holds an entry, its parent read and shown.
C1_Witness ==
    /\ pc = "done"
    /\ \E n \in IgnoredDirNodes :
          /\ Len(path_relative(targetDir, n.path)) = 2
          /\ WasRead(ParentDir(n))
          /\ LineCount(ParentDir(n)) = 1
          /\ \E m \in AllNodes : m # n /\ IsPrefix(n.path, m.path)

\* C2: for every directory with an ignored name, at any depth, fs.readdir is
\* never called on it and no path beneath it is ever in textFiles.
C2_IgnoredDirNeverEntered ==
    \A n \in IgnoredDirNodes :
        /\ n.path \notin Range(listed)
        /\ \A i \in DOMAIN stack : stack[i].dirPath # n.path
        /\ \A i \in DOMAIN textFiles : ~IsPrefix(n.path, textFiles[i])

\* C2 witness: the walk has finished and collected a file, in a tree where an
\* ignored directory below a read directory holds a file that would qualify.
C2_Witness ==
    /\ pc = "done" /\ textFiles # <<>>
    /\ \E n \in IgnoredDirNodes :
          /\ WasRead(ParentDir(n))
          /\ \E m \in AllNodes :
                /\ m.kind = "file" /\ ParentDir(m) = n.path
                /\ NameOf(m) \notin IGNORED_DIRS
                /\ Collects([name |-> NameOf(m), kind |-> m.kind], m.path)

\* The files excluded from the contents by name or by type.
ExcludedFile(n) ==
    /\ n.kind = "file"
    /\ \/ NameOf(n) \in IGNORED_FILES
       \/ /\ toLowerCase(path_extname(n.path)) \in NON_TEXT_EXTENSIONS
          /\ ~ExtIsDocument(toLowerCase(path_extname(n.path)))

C4_FileCollectedIffEligible ==
    Traversed =>
        \A n \in AllNodes :
            (n.kind = "file" /\ WasRead(ParentDir(n))) =>
                /\ (n.path \in Range(textFiles))
                      <=> (NameOf(n) \notin IGNORED_FILES /\ isTextFile(n.path))
                /\ LineCount(n.path) = 1

\* C5: the content blocks of the report, top to bottom, name the collected
\* files in order, and the collected files are the files in the pre-order of
\* the walk.
C5_BlocksInPreOrder ==
    /\ Traversed => textFiles = ExpectedFiles
    /\ pc \in {"output", "done"} =>
          BlockHeaderPaths(outputBuffer) = PrintedPaths(textFiles)

\* C5 witness: a finished report with a file of a subdirectory collected
\* before a file that follows the subdirectory in its parent's listing.
C5_Witness ==
    /\ pc = "done" /\ Len(textFiles) >= 2
    /\ \E i \in 1..(Len(textFiles) - 1) :
          /\ Len(textFiles[i]) > Len(textFiles[i + 1])
          /\ Len(BlockHeaderPaths(outputBuffer)) = Len(textFiles)

\* The file count printed in the Section 2 header of a report.
Section2Counts(buf) ==
    { buf[i + 1] : i \in {j \in 1..(Len(buf) - 1) : buf[j] = "--- Section 2: File Contents ("} }

Occurrences(seq, x) == Cardinality({i \in DOMAIN seq : seq[i] = x})

\* The first tokens of the placeholder markers.
MarkerOpenings ==
    { "--- Error reading file: ", "--- Error: PDF ", "--- Error extracting text from PDF ",
      "--- No text extracted from PDF ", "--- Error extracting text from DOC ",
      "--- No text extracted from DOC ", "--- Error extracting text from DOCX ",
      "--- No text extracted from DOCX " }

IsMarker(text) == text # <<>> /\ Head(text) \in MarkerOpenings

\* C6: the count N of the Section 2 header is the length of textFiles and
\* the number of content blocks; while the loop runs, exactly the files
\* already processed have a block, one each, whatever readFileContent
\* returned for them.
C6_OneBlockPerCollectedFile ==
    pc \in {"extract", "reading", "output", "done"} =>
        LET heads == BlockHeaderPaths(outputBuffer)
            feet == BlockFooterPaths(outputBuffer)
            printed == PrintedPaths(textFiles)
        IN  /\ Section2Counts(outputBuffer) = { ToString(Len(textFiles)) }
            /\ Len(heads) = idx - 1 /\ Len(feet) = idx - 1
            /\ \A i \in DOMAIN printed :
                  /\ Occurrences(heads, printed[i]) = (IF i < idx THEN 1 ELSE 0)
                  /\ Occurrences(feet, printed[i]) = (IF i < idx THEN 1 ELSE 0)
            /\ pc \in {"output", "done"} => Len(heads) = Len(textFiles)

\* C6 witness: a finished report of at least two files, one whose block holds
\* a placeholder marker, one whose content was empty.
C6_Witness ==
    /\ pc = "done" /\ Len(textFiles) >= 2
    /\ \E i \in DOMAIN outputBuffer : outputBuffer[i] \in MarkerOpenings
    /\ \E i \in DOMAIN textFiles :
          LET rel == path_relative(targetDir, textFiles[i])
              both == FileHeader(rel) \o FileFooter(rel)
          IN  \E k \in 0..(Len(outputBuffer) - Len(both)) :
                SubSeq(outputBuffer, k + 1, k + Len(both)) = both

\* rest is the blocks of the files, in order, each from its header to its
\* footer.
RECURSIVE IsBlocks(_, _)
IsBlocks(rest, files) ==
    IF files = <<>> THEN rest = <<>>
    ELSE LET rel == path_relative(targetDir, Head(files))
             h == FileHeader(rel)
             f == FileFooter(rel)
         IN  /\ IsPrefix(h, rest)
             /\ \E k \in (Len(h) + 1)..(Len(rest) - Len(f) + 1) :
                   /\ SubSeq(rest, k, k + Len(f) - 1) = f
                   /\ IsBlocks(SubSeq(rest, k + Len(f), Len(rest)), Tail(files))

WellFormedReport(buf) ==
    LET pre == Section1Header \o projectName \o <<NL>> \o structure
               \o Section2Header(Len(textFiles))
        rest == SubSeq(buf, Len(pre) + 1, Len(buf))
    IN  /\ IsPrefix(pre, buf)
        /\ IF Len(textFiles) = 0 THEN rest = NoFilesLine
           ELSE IsBlocks(rest, textFiles)

\* C7: for a root that is a directory, whatever listings and extractions
\* fail, generateProjectSummary never rejects, and the report it returns is
\* the Section 1 line, the root label, the structure, the Section 2 line
\* with N, then the no-files line or N content blocks.
C7_ReportAlwaysWellFormed ==
    /\ rootKind = "dir" => pc # "exit"
    /\ pc \in {"output", "done"} => WellFormedReport(outputBuffer)

\* C7 witness: a report was returned although the listing of a subdirectory
\* failed and an extraction ended in a marker.
C7_Witness ==
    /\ pc = "done"
    /\ \E d \in failed : d # targetDir
    /\ \E i \in DOMAIN outputBuffer : outputBuffer[i] \in MarkerOpenings

\* C8: when the root path is missing or not a directory the run ends with
\* exit code 1 before the walk: traverseDirectory is never called and no
\* report text is built, printed or copied.
C8_InvalidRootIsFatal ==
    rootKind # "dir" =>
        /\ pc \in {"start", "exit"}
        /\ pc = "exit" => exitCode = 1
        /\ stack = <<>> /\ listed = <<>>
        /\ outputBuffer = <<>> /\ console = <<>> /\ clipboard = <<>>

\* C8 witness: the run has exited on a root path that is a regular file.
C8_Witness == rootKind = "file" /\ pc = "exit" /\ exitCode = 1

\* The step in which a listing fails.
C9_FailStep ==
    failed' # failed =>
        /\ pc' # "exit"
        /\ textFiles' = textFiles
        /\ IF Len(stack) = 1 THEN structure' = <<>> /\ stack' = <<>>
           ELSE /\ Len(stack') = Len(stack) - 1
                /\ SubSeq(stack', 1, Len(stack') - 1) = SubSeq(stack, 1, Len(stack) - 2)
                /\ stack'[Len(stack')] =
                      [stack[Len(stack) - 1] EXCEPT !.i = @ + 1]

C9_AfterWalk ==
    Traversed =>
        /\ StructurePaths(structure) = ExpectedEntries
        /\ \A d \in failed : d # targetDir => LineCount(d) = 1
        /\ \A i \in DOMAIN ExpectedFiles : ExpectedFiles[i] \in Range(textFiles)

\* C9: the call of traverseDirectory whose listing fails returns the empty
\* string and does not throw: its caller's structureOutput (which ends with
\* the failing directory's line) and textFiles are left as they were and the
\* caller moves on to the next entry; after the walk the structure holds the
\* line of every entry shown, in order, the failing directory's included, and
\* textFiles holds the files of all directories that were read.
C9_ListingFailureIsLocal == [][C9_FailStep]_vars /\ []C9_AfterWalk

\* C9 witness: a finished run in which the listing of a directory failed
\* between a collected file before it and a collected file after it.
C9_Witness ==
    /\ pc = "done"
    /\ \E i \in 2..(Len(tree) - 1) :
          /\ tree[i].kind = "dir" /\ Append(targetDir, tree[i].name) \in failed
          /\ LineCount(Append(targetDir, tree[i].name)) = 1
          /\ Append(targetDir, tree[i - 1].name) \in Range(textFiles)
          /\ Append(targetDir, tree[i + 1].name) \in Range(textFiles)

\* C10: whatever the file and whatever fails (the read, or the PDF, DOCX or
\* DOC parser, also by throwing a value without a message, null or
\* undefined), readFileContent resolves, with the extracted text or a
\* marker; it never rejects.
C10_ReadFileContentNeverRejects ==
    pc = "reading" =>
        \A o \in OutcomesFor(textFiles[idx]) :
            LET r == readFileContent(textFiles[idx], targetDir, o)
            IN  /\ r.ok
                /\ \/ IsMarker(r.value)
                   \/ /\ o.step = "ok" /\ o.defined
                      /\ Len(r.value) >= Len(o.text)
                      /\ SubSeq(r.value, Len(r.value) - Len(o.text) + 1, Len(r.value)) = o.text

\* C10 witness: a finished report in which the block of a PDF holds the
\* marker of readFileContent's own catch block: the parser threw a value
\* without a message and the extractor's handler threw in turn.
C10_Witness ==
    /\ pc = "done"
    /\ \E i \in DOMAIN textFiles :
          /\ toLowerCase(path_extname(textFiles[i])) = DotName("pdf")
          /\ LET m == <<"--- Error reading file: ">>
                       \o PathString(path_relative(targetDir, textFiles[i]))
             IN  \E k \in 0..(Len(outputBuffer) - Len(m)) :
                   SubSeq(outputBuffer, k + 1, k + Len(m)) = m

\* C11: for a root directory with no entries, or whose entries are all
\* discarded by the walk, the report is the Section 1 line, the root label
\* line, the Section 2 line reporting 0 files and the line "No text files
\* found to display.", with no structure line and no content block.
C11_EmptyRootReport ==
    (pc \in {"output", "done"} /\ \A i \in DOMAIN tree : tree[i].name \in IGNORED_DIRS) =>
        /\ outputBuffer = << "--- Section 1: Folder Structure ---", NL, "demo", NL,
                             NL, "--- Section 2: File Contents (", "0", " files) ---", NL,
                             "No text files found to display.", NL >>
        /\ structure = <<>> /\ textFiles = <<>>
        /\ BlockHeaderPaths(outputBuffer) = <<>>

\* C11 witness: a finished report over a root that was read and holds only an
\* ignored directory, which holds a file that would qualify.
C11_Witness ==
    /\ pc = "done" /\ WasRead(targetDir)
    /\ Len(tree) = 1 /\ tree[1].name \in IGNORED_DIRS /\ tree[1].kind = "dir"
    /\ \E j \in DOMAIN tree[1].sub :
          /\ tree[1].sub[j].kind = "file"
          /\ isTextFile(<<tree[1].name, tree[1].sub[j].name>>)
    /\ Len(outputBuffer) = 11

\* The entries of a directory's contents that are shown.
Shown(forest) ==
    LET notIgnored(e) == e.name \notin IGNORED_DIRS
    IN  SelectSeq(forest, notIgnored)

\* The tree diagram of a directory's contents as a function of the contents and
\* of the set of directories whose listing fails.
RECURSIVE StructureOf(_, _, _, _)
StructureOf(forest, base, prefix, failing) ==
    LET kept == Shown(forest)
        RECURSIVE from(_)
        from(i) ==
            IF i > Len(kept) THEN <<>>
            ELSE LET e == kept[i]
                     p == Append(base, e.name)
                     last == (i = Len(kept))
                 IN  prefix \o << IF last THEN "+-- " ELSE "|-- " >> \o e.name \o <<NL>>
                     \o (IF e.kind = "dir" /\ p \notin failing
                         THEN StructureOf(e.sub, p,
                                          Append(prefix, IF last THEN "    " ELSE "|   "),
                                          failing)
                         ELSE <<>>)
                     \o from(i + 1)
    IN  from(1)

\* The content blocks as a function of the collected paths and of what the
\* extractions returned.
RECURSIVE BlocksOf(_, _)
BlocksOf(files, texts) ==
    IF files = <<>> THEN <<>>
    ELSE LET rel == PathString(path_relative(targetDir, Head(files)))
             text == Head(texts)
         IN  <<NL, "--- File: ">> \o rel \o <<" ---", NL>>
             \o text \o (IF text # <<>> /\ Last(text) # NL THEN <<NL>> ELSE <<>>)
             \o <<"--- End of File: ">> \o rel \o <<" ---", NL>>
             \o BlocksOf(Tail(files), Tail(texts))

\* The report as a function of the tree, the directories whose listing fails
\* and the strings the extractions return, and of nothing else.
ReportOf(forest, failing, texts) ==
    LET files == IF targetDir \in failing THEN <<>> ELSE PreOrderFiles(forest, targetDir)
        diagram == IF targetDir \in failing THEN <<>>
                   ELSE StructureOf(forest, targetDir, <<>>, failing)
    IN  <<"--- Section 1: Folder Structure ---", NL>> \o Last(targetDir) \o <<NL>>
        \o diagram
        \o <<NL, "--- Section 2: File Contents (", ToString(Len(files)), " files) ---", NL>>
        \o (IF files = <<>> THEN <<"No text files found to display.", NL>>
            ELSE BlocksOf(files, texts))

\* C12: the report generateProjectSummary returns is a function of the tree
\* (with its listing order), of which listings fail and of what the
\* extractions return, and of nothing else: two runs that agree on these
\* return the same report, whatever else happened in them.
C12_ReportIsFunctionOfInputs ==
    pc \in {"output", "done"} =>
        /\ Len(results) = Len(textFiles)
        /\ outputBuffer = ReportOf(tree, failed, results)

\* C12 witness: a finished report over a nested tree, with a failed listing
\* and two extractions.
C12_Witness ==
    /\ pc = "done" /\ Len(results) >= 2
    /\ \E d \in failed : d # targetDir
    /\ outputBuffer = ReportOf(tree, failed, results)

PdfEncryptedMarker(base) ==
    <<"--- Error: PDF ">> \o base \o <<" is likely password-protected or encrypted. ---">>

PdfGenericMarker(base) ==
    <<"--- Error extracting text from PDF ">> \o base \o <<" using pdf-parse. ---">>

\* The parser failed because the document is encrypted or password-protected.
IsEncryptionFailure(e) ==
    e \in EncryptionErrors \/ e = ErrorOf(<<"file is ", "encrypted">>)

\* C13: for every PDF whose parsing fails because the document is encrypted
\* or password-protected, whatever the letter case and wording of the
\* parser's message, extractPdfText returns the password-protected marker and
\* never the generic one; for every other parser failure it returns the
\* generic marker.
C13_EncryptedPdfGetsDistinctMarker ==
    (pc = "reading" /\ toLowerCase(path_extname(textFiles[idx])) = DotName("pdf")) =>
        \A o \in PdfOutcomes :
            o.step = "throw" =>
                LET r == extractPdfText(textFiles[idx], o)
                    base == path_basename(textFiles[idx])
                IN  /\ r.ok
                    /\ r.value = IF IsEncryptionFailure(o.thrown)
                                 THEN PdfEncryptedMarker(base)
                                 ELSE PdfGenericMarker(base)

\* sub occurs in str as a run of consecutive characters.
ContainsSeq(str, sub) ==
    \E k \in 0..(Len(str) - Len(sub)) : SubSeq(str, k + 1, k + Len(sub)) = sub

\* C14: every placeholder marker that replaces a file's content (no text
\* extracted, extraction error, encrypted, read error), for PDF, DOCX, DOC and
\* plain files alike, contains the file's path relative to the root.
C14_MarkerHoldsRelativePath ==
    pc = "reading" =>
        \A o \in OutcomesFor(textFiles[idx]) :
            LET r == readFileContent(textFiles[idx], targetDir, o)
            IN  (r.ok /\ IsMarker(r.value)) =>
                    ContainsSeq(r.value,
                                PathString(path_relative(targetDir, textFiles[idx])))

\* The positions of a token in a string, in increasing order.
IndicesOf(str, tok) ==
    LET ids == [i \in 1..Len(str) |-> i]
        hit(i) == str[i] = tok
    IN  SelectSeq(ids, hit)

\* C15: every content block is the line `--- File: p ---`, then the
\* extraction result, then the line `--- End of File: p ---` with the same
\* relative path p; the footer starts at the beginning of a line for every
\* result (empty, ending with a newline, or not), and each block is complete
\* before the next block's header.
C15_BlockFraming ==
    pc \in {"extract", "output", "done"} =>
        LET buf == outputBuffer
            hs == IndicesOf(buf, "--- File: ")
            fs == IndicesOf(buf, "--- End of File: ")
        IN  /\ Len(hs) = idx - 1 /\ Len(fs) = idx - 1 /\ Len(results) = idx - 1
            /\ \A i \in DOMAIN hs :
                  LET p == PathString(path_relative(targetDir, textFiles[i]))
                      n == Len(p)
                      body == SubSeq(buf, hs[i] + n + 3, fs[i] - 1)
                  IN  /\ hs[i] < fs[i]
                      /\ i < Len(hs) => fs[i] < hs[i + 1]
                      /\ buf[hs[i] - 1] = NL
                      /\ SubSeq(buf, hs[i] + 1, hs[i] + n + 2) = p \o <<" ---", NL>>
                      /\ buf[fs[i] - 1] = NL
                      /\ SubSeq(buf, fs[i] + 1, fs[i] + n + 2) = p \o <<" ---", NL>>
                      /\ \/ body = results[i]
                         \/ body = results[i] \o <<NL>> /\ results[i] # <<>>
                                                        /\ Last(results[i]) # NL

\* C15 witness: a finished report whose three blocks hold an empty result, a
\* result that ends with a newline and a result that does not.
C15_Witness ==
    /\ pc = "done"
    /\ \E i, j, k \in DOMAIN results :
          /\ results[i] = <<>>
          /\ results[j] # <<>> /\ Last(results[j]) = NL
          /\ results[k] # <<>> /\ Last(results[k]) # NL
    /\ Len(IndicesOf(outputBuffer, "--- End of File: ")) = 3

(***************************************************************************)
(* Functions called on their own: processWithLLM and isTextFile.  `called` *)
(* holds the function's name and arguments together with what its          *)
(* environment answers, `returned` what it returned, threw or sent.        *)
(***************************************************************************)
\* The longest summary, in tokens.
MaxSummaryLen == 2

mainVars == << rootKind, tree, pc, stack, textFiles, structure, outputBuffer, idx,
               console, clipboard, exitCode, listed, failed, results, started >>

SUMMARY_PLACEHOLDER == "{{SUMMARY}}"

\* Index of the first occurrence of a token in a string, 0 when there is none
\* (String.prototype.indexOf, 1-based).
IndexOf(str, tok) ==
    IF \A i \in DOMAIN str : str[i] # tok THEN 0
    ELSE CHOOSE i \in DOMAIN str : str[i] = tok /\ \A j \in 1..(i - 1) : str[j] # tok

\* GetSubstitution of String.prototype.replace for a string pattern: in the
\* replacement, $$ stands for a dollar sign, $& for the matched text, $` for
\* the text before the match and $' for the text after it.  The token
\* "$(backtick)" stands for the dollar sign followed by a backtick.
RECURSIVE GetSubstitution(_, _, _, _)
GetSubstitution(replacement, matched, before, after) ==
    IF replacement = <<>> THEN <<>>
    ELSE LET t == Head(replacement)
             out == CASE t = "$$" -> <<"$">>
                      [] t = "$&" -> <<matched>>
                      [] t = "$(backtick)" -> before
                      [] t = "$'" -> after
                      [] OTHER -> <<t>>
         IN  out \o GetSubstitution(Tail(replacement), matched, before, after)

replace_Literal(str, pattern, replacement) ==
    LET k == IndexOf(str, pattern)
    IN  IF k = 0 THEN str
        ELSE SubSeq(str, 1, k - 1) \o replacement \o SubSeq(str, k + 1, Len(str))

\* String.prototype.replace(pattern, replacement) with a string pattern: the
\* first occurrence only, the replacement expanded by GetSubstitution.
replace(str, pattern, replacement) ==
    LET k == IndexOf(str, pattern)
        before == SubSeq(str, 1, k - 1)
        after == SubSeq(str, k + 1, Len(str))
    IN  IF k = 0 THEN str
        ELSE before \o GetSubstitution(replacement, pattern, before, after) \o after

Threw(msg) == [threw |-> TRUE, value |-> msg, sent |-> <<>>, asked |-> FALSE]

Returned(v, prompt) == [threw |-> FALSE, value |-> v, sent |-> prompt, asked |-> TRUE]

\* processWithLLM(summary, options): env says whether the template file can
\* be read, what it holds, and what the chat-completion call answers.
processWithLLM(summary, options, env) ==
    IF ~options.apiKey
    THEN Threw(<<"OpenAI API key is not provided.">>)
    ELSE IF ~env.readable
    THEN Threw(<<"Error reading prompt template file">>)
    ELSE LET promptTemplate == env.template
             finalPrompt ==
                 IF SUMMARY_PLACEHOLDER \in Range(promptTemplate)
                 THEN replace(promptTemplate, SUMMARY_PLACEHOLDER, summary)
                 ELSE promptTemplate \o <<NL, NL, "--- Project Summary Start ---", NL>>
                      \o summary \o <<NL, "--- Project Summary End ---">>
         IN  IF env.api = "throw"
             THEN [Threw(<<"Failed to get response from OpenAI API.">>)
                      EXCEPT !.sent = finalPrompt, !.asked = TRUE]
             ELSE IF env.api = "empty"
             THEN Returned(<<"Received an empty response from the AI.">>, finalPrompt)
             ELSE Returned(<<"# Review">>, finalPrompt)

SummaryTokens == {"text", "$&", "$$", "$'", "$(backtick)", SUMMARY_PLACEHOLDER}

RECURSIVE StringsOver(_, _)
StringsOver(alphabet, n) ==
    IF n = 0 THEN { <<>> }
    ELSE StringsOver(alphabet, n - 1)
         \cup { Append(w, c) : w \in { v \in StringsOver(alphabet, n - 1) : Len(v) = n - 1 },
                               c \in alphabet }

Summaries == StringsOver(SummaryTokens, MaxSummaryLen)

Templates ==
    { <<"Review this: ", SUMMARY_PLACEHOLDER, " Thanks.">>,
      <<SUMMARY_PLACEHOLDER>>,
      <<"No placeholder here.">>,
      <<>> }

CallProcessWithLLM ==
    /\ called = NoCall
    /\ \E summary \in Summaries, apiKey \in BOOLEAN, readable \in BOOLEAN,
          template \in Templates, api \in {"text", "empty", "throw"} :
          LET options == [promptTemplatePath |-> <<"prompt_template.txt">>, apiKey |-> apiKey]
              env == [readable |-> readable, template |-> template, api |-> api]
          IN  /\ called' = [fn |-> "processWithLLM", summary |-> summary,
                            options |-> options, env |-> env]
              /\ returned' = processWithLLM(summary, options, env)
    /\ UNCHANGED << mainVars, webVars, fetchVars >>

\* Extensions as written in file names, each with its lower-case form: every
\* extension of the non-text set, the document extensions, upper-case
\* spellings, and extensions of neither group.
WrittenExtensions ==
    { [written |-> e[2], lower |-> e[2]] : e \in NON_TEXT_EXTENSIONS \ {DotName("DS_Store")} }
    \cup { [written |-> x, lower |-> x] : x \in {"pdf", "docx", "doc", "txt", "js", "md"} }
    \cup { [written |-> "PNG", lower |-> "png"], [written |-> "PDF", lower |-> "pdf"],
           [written |-> "DS_Store", lower |-> "ds_store"] }

\* File paths for isTextFile: with an extension, with two, with none, and dot
\* files; lower is the lower-cased extension path.extname gives the name.
ClassifiedPaths ==
    { [path |-> dir \o << <<"a", ".", x.written>> >>, lower |-> <<".", x.lower>>] :
          dir \in { targetDir, Append(targetDir, Plain("src")) }, x \in WrittenExtensions }
    \cup { [path |-> Append(targetDir, <<"a", ".", "tar", ".", x.written>>),
            lower |-> <<".", x.lower>>] : x \in WrittenExtensions }
    \cup { [path |-> Append(targetDir, n), lower |-> <<>>] :
              n \in { Plain("Makefile"), DotName("gitignore"), DotName("png") } }

CallIsTextFile ==
    /\ called = NoCall
    /\ \E f \in ClassifiedPaths :
          /\ called' = [fn |-> "isTextFile", filePath |-> f.path, lower |-> f.lower]
          /\ returned' = [threw |-> FALSE, value |-> isTextFile(f.path)]
    /\ UNCHANGED << mainVars, webVars, fetchVars >>

(***************************************************************************)
(* Transcript splicing of plain-text content.  No revision of the sources  *)
(* at hand holds this step; it is modelled from the specification: every   *)
(* distinct video URL of the text is fetched, then the caption text, or a   *)
(* "transcript not available" marker when the fetch failed, is spliced in  *)
(* after the URL, in the order of the text.                                *)
(***************************************************************************)
\* The longest text, in tokens.
MaxTextLen == 3

VideoUrls == { "https://youtu.be/dQw4w9WgXcQ", "https://www.youtube.com/watch?v=aaaaaaaaaaa" }

TextTokens == VideoUrls \cup { "See ", " for details." }

Texts == StringsOver(TextTokens, MaxTextLen)

Captions(url) == <<NL, "[Transcript of ", url, "]: ", "never gonna", NL>>

TranscriptNotAvailable == <<" [transcript not available]">>

spliceTranscripts_FirstOnly(text, fetch) ==
    LET k == CHOOSE i \in DOMAIN text \cup {0} :
                 /\ i # 0 => text[i] \in VideoUrls
                 /\ \A j \in 1..(IF i = 0 THEN Len(text) ELSE i - 1) : text[j] \notin VideoUrls
    IN  IF k = 0 THEN text
        ELSE SubSeq(text, 1, k) \o (IF fetch[text[k]] THEN Captions(text[k])
                                     ELSE TranscriptNotAvailable)
             \o SubSeq(text, k + 1, Len(text))

RECURSIVE spliceTranscripts(_, _)
spliceTranscripts(text, fetch) ==
    IF text = <<>> THEN <<>>
    ELSE LET t == Head(text)
         IN  <<t>>
             \o (IF t \notin VideoUrls THEN <<>>
                 ELSE IF fetch[t] THEN Captions(t) ELSE TranscriptNotAvailable)
             \o spliceTranscripts(Tail(text), fetch)

CallSpliceTranscripts ==
    /\ called = NoCall
    /\ \E text \in Texts, fetch \in [VideoUrls -> BOOLEAN] :
          /\ called' = [fn |-> "spliceTranscripts", text |-> text, fetch |-> fetch]
          /\ returned' = [threw |-> FALSE, value |-> spliceTranscripts(text, fetch)]
    /\ UNCHANGED << mainVars, webVars, fetchVars >>

(***************************************************************************)
(* The PDF extractors of the Docling revision of project_summary.js: the   *)
(* docling command first, the PyPDF2 script as fallback.                   *)
(***************************************************************************)
\* String.prototype.trim.
RECURSIVE trim(_)
trim(str) ==
    IF str # <<>> /\ Head(str) \in {" ", NL} THEN trim(Tail(str))
    ELSE IF str # <<>> /\ Last(str) \in {" ", NL} THEN trim(Front(str))
    ELSE str

\* What the promisified exec rejects with: always an Error object.
ExecError == ErrorOf(<<"Command failed">>)

ScriptError == <<"--- Error: Could not read PDF ---">>

\* What one run of a command gives: it exits with stdout and stderr, or the
\* promise rejects.
DoclingRuns ==
    { [kind |-> "ok", stdout |-> t] :
        t \in { <<>>, <<" ", NL>>, <<"text">>, <<" ", "text", NL>> } }
    \cup { [kind |-> "fail", stdout |-> <<>>] }

PythonRuns ==
    { [kind |-> "ok", stdout |-> t, stderr |-> e] :
        t \in { <<>>, <<" ">>, <<"text", NL>> },
        e \in { <<>>, <<NL>>, ScriptError \o <<NL>> } }
    \cup { [kind |-> "fail", stdout |-> <<>>, stderr |-> <<>>] }

PdfToolEnvs ==
    [docling : DoclingRuns, scriptExists : BOOLEAN, python : PythonRuns]

extractPdfTextFallback(pdfPath, env) ==
    LET base == path_basename(pdfPath)
    IN  IF ~env.scriptExists
        THEN Resolved(<<"--- Error: Python PDF extraction script not found. Please ensure 'utils/extract_pdf_text.py' exists. ---">>)
        ELSE IF env.python.kind = "fail"
        THEN (IF MessageReadThrows(ExecError) THEN Rejected(TypeErrorValue)
              ELSE Resolved(<<"--- Error extracting text from PDF ">> \o base
                            \o <<" using Python. Python or PyPDF2 may not be installed correctly. ---">>))
        ELSE IF env.python.stderr # <<>> THEN Resolved(trim(env.python.stderr))
        ELSE IF env.python.stdout # <<>> THEN Resolved(env.python.stdout)
        ELSE Resolved(<<"--- No text extracted from PDF ">> \o base
                      \o <<" by PyPDF2. The PDF may be empty or contain only images. ---">>)

doclingExtractPdfText_NoBlankTest(pdfPath, env) ==
    LET fallback == extractPdfTextFallback(pdfPath, env)
    IN  IF env.docling.kind = "ok"
        THEN IF env.docling.stdout = <<>>
             THEN [result |-> fallback, fallbackCalls |-> IF fallback.ok THEN 1 ELSE 2]
             ELSE [result |-> Resolved(env.docling.stdout), fallbackCalls |-> 0]
        ELSE IF MessageReadThrows(ExecError)
             THEN [result |-> Rejected(TypeErrorValue), fallbackCalls |-> 0]
        ELSE [result |-> fallback, fallbackCalls |-> 1]

\* extractPdfText of the Docling revision, with the number of calls of the
\* fallback it makes.  A rejection of the fallback awaited inside the try
\* block is caught by the same catch, which calls the fallback again.
doclingExtractPdfText(pdfPath, env) ==
    LET fallback == extractPdfTextFallback(pdfPath, env)
    IN  IF env.docling.kind = "ok"
        THEN IF env.docling.stdout = <<>> \/ trim(env.docling.stdout) = <<>>
             THEN [result |-> fallback, fallbackCalls |-> IF fallback.ok THEN 1 ELSE 2]
             ELSE [result |-> Resolved(env.docling.stdout), fallbackCalls |-> 0]
        ELSE IF MessageReadThrows(ExecError)
             THEN [result |-> Rejected(TypeErrorValue), fallbackCalls |-> 0]
        ELSE [result |-> fallback, fallbackCalls |-> 1]

CallExtractPdfText ==
    /\ called = NoCall
    /\ \E env \in PdfToolEnvs :
          LET pdfPath == Append(targetDir, WithExt("notes", "pdf"))
              r == doclingExtractPdfText(pdfPath, env)
          IN  /\ called' = [fn |-> "extractPdfText", pdfPath |-> pdfPath, env |-> env]
              /\ returned' = [threw |-> ~r.result.ok, value |-> r.result.value,
                              fallbackCalls |-> r.fallbackCalls]
    /\ UNCHANGED << mainVars, webVars, fetchVars >>

\* The longest extraction result handed to the loop body, in tokens.
MaxContentLen == 4

\* The file of the block, and results that hold blanks, newlines and the
\* pieces of that file's own footer line.
BlockFile == Append(targetDir, Plain("x"))

ResultTokens == { "hello", " ", NL, "--- End of File: ", "x", " ---" }

ExtractionResults == StringsOver(ResultTokens, MaxContentLen)

\* One iteration of the for-of loop body on an extraction result.
CallBlock ==
    /\ called = NoCall
    /\ \E content \in ExtractionResults :
          /\ called' = [fn |-> "Block", filePath |-> BlockFile, content |-> content]
          /\ returned' = [threw |-> FALSE, value |-> Block(BlockFile, content)]
    /\ UNCHANGED << mainVars, webVars, fetchVars >>

InitUnit ==
    /\ rootKind = "dir" /\ tree = <<>> /\ pc = "start" /\ stack = <<>>
    /\ textFiles = <<>> /\ structure = <<>> /\ outputBuffer = <<>> /\ idx = 1
    /\ console = <<>> /\ clipboard = <<>> /\ exitCode = -1
    /\ listed = <<>> /\ failed = {} /\ results = <<>> /\ started = <<>>
    /\ called = NoCall
    /\ returned = NoCall
    /\ WebIdle /\ FetchIdle

NextUnit ==
    \/ CallProcessWithLLM
    \/ CallIsTextFile
    \/ CallSpliceTranscripts
    \/ CallBlock
    \/ CallExtractPdfText

SpecUnit == InitUnit /\ [][NextUnit]_vars

\* Every occurrence of the placeholder replaced by the summary, as written.
RECURSIVE Substituted(_, _)
Substituted(template, summary) ==
    IF template = <<>> THEN <<>>
    ELSE (IF Head(template) = "{{SUMMARY}}" THEN summary ELSE <<Head(template)>>)
         \o Substituted(Tail(template), summary)

\* C16: for every template that contains the placeholder and every summary
\* (also one that holds $-sequences or the placeholder text), the prompt sent
\* to the API is the template with the placeholder replaced by the summary,
\* character for character; for a template without placeholder the summary
\* appears verbatim after the whole template text.
C16_PromptHoldsSummaryVerbatim ==
    (called.fn = "processWithLLM" /\ returned.asked) =>
        LET template == called.env.template
            summary == called.summary
        IN  IF "{{SUMMARY}}" \in Range(template)
            THEN returned.sent = Substituted(template, summary)
            ELSE /\ IsPrefix(template, returned.sent)
                 /\ ContainsSeq(SubSeq(returned.sent, Len(template) + 1, Len(returned.sent)),
                                summary)

\* res is orig with, right after each video URL, the captions fetched for it
\* or the not-available marker, and nothing else added or removed.
RECURSIVE IsSpliced(_, _, _)
IsSpliced(orig, res, fetch) ==
    IF orig = <<>> THEN res = <<>>
    ELSE /\ res # <<>> /\ Head(res) = Head(orig)
         /\ IF Head(orig) \in VideoUrls
            THEN LET ins == IF fetch[Head(orig)] THEN Captions(Head(orig))
                            ELSE TranscriptNotAvailable
                 IN  /\ IsPrefix(ins, Tail(res))
                     /\ IsSpliced(Tail(orig), SubSeq(res, Len(ins) + 2, Len(res)), fetch)
            ELSE IsSpliced(Tail(orig), Tail(res), fetch)

\* C17: for plain text that holds recognized video URLs, the extracted
\* content is the original text with, immediately after each URL occurrence,
\* the fetched transcript (fetch succeeded) or the transcript-not-available
\* marker (fetch failed); every other character is preserved and a failed
\* fetch does not fail the extraction.
C17_TranscriptSplicedAfterUrl ==
    called.fn = "spliceTranscripts" =>
        /\ ~returned.threw
        /\ IsSpliced(called.text, returned.value, called.fetch)

\* C17 witness: a text with two different URLs around other text, one fetch
\* succeeded and one failed.
C17_Witness ==
    /\ called.fn = "spliceTranscripts" /\ Len(called.text) = 3
    /\ called.text[1] \in VideoUrls /\ called.text[3] \in VideoUrls
    /\ called.text[2] \notin VideoUrls
    /\ called.fetch[called.text[1]] /\ ~called.fetch[called.text[3]]
    /\ Len(returned.value) = 3 + Len(Captions(called.text[1])) + Len(TranscriptNotAvailable)

\* C18: isTextFile depends only on the lower-cased extension of the path: true
\* for .pdf, .docx and .doc, true for an empty extension, false for an
\* extension of the non-text set, true for every other; the document
\* extensions and the non-text set are disjoint.
C18_IsTextFileByLowerExtension ==
    /\ called.fn = "isTextFile" =>
          returned.value =
              (IF called.lower \in {<<".", "pdf">>, <<".", "docx">>, <<".", "doc">>} THEN TRUE
               ELSE IF called.lower = <<>> THEN TRUE
               ELSE IF called.lower \in NON_TEXT_EXTENSIONS THEN FALSE
               ELSE TRUE)
    /\ {<<".", "pdf">>, <<".", "docx">>, <<".", "doc">>} \cap NON_TEXT_EXTENSIONS = {}

\* C18 witness: isTextFile returned false for a name with two extensions, the
\* last one a non-text extension written in upper case.
C18_Witness ==
    /\ called.fn = "isTextFile" /\ ~returned.value
    /\ Last(called.filePath) = <<"a", ".", "tar", ".", "PNG">>

\* Only white space (String.prototype.trim() leaves nothing).
IsBlank(text) == \A i \in DOMAIN text : text[i] \in {" ", NL}

\* C19: for every PDF the backend parses without error, extractPdfText
\* returns the line "[Extracted from n page(s)]", a blank line and the text
\* when the text is not blank, and the no-text-extracted marker when the text
\* is missing, empty or blank; it never returns the empty string.
C19_PdfSuccessResult ==
    (pc = "reading" /\ toLowerCase(path_extname(textFiles[idx])) = <<".", "pdf">>) =>
        \A o \in PdfOutcomes :
            o.step = "ok" =>
                LET r == extractPdfText(textFiles[idx], o)
                IN  /\ r.ok /\ r.value # <<>>
                    /\ IF o.defined /\ ~IsBlank(o.text)
                       THEN r.value = <<"[Extracted from ", ToString(o.pages), " page(s)]",
                                        NL, NL>> \o o.text
                       ELSE /\ Head(r.value) = "--- No text extracted from PDF "
                            /\ Last(r.value) =
                                  " by pdf-parse. The PDF may be empty or contain only images. ---"

\* C19 witness: a finished report with the block of a PDF whose text was
\* extracted and the block of a PDF that gave no text.
C19_Witness ==
    /\ pc = "done"
    /\ ContainsSeq(outputBuffer, <<"[Extracted from ", "2", " page(s)]", NL, NL, "hello", NL>>)
    /\ \E i \in DOMAIN outputBuffer : outputBuffer[i] = "--- No text extracted from PDF "

ReadErrorMarker(filePath) ==
    <<"--- Error reading file: ">> \o PathString(path_relative(targetDir, filePath))
        \o <<". Content omitted. ---">>

IsPlainFile(filePath) == ~ExtIsDocument(toLowerCase(path_extname(filePath)))

\* C20: when reading a plain file (not PDF, DOCX or DOC) fails,
\* readFileContent returns exactly "--- Error reading file: <relativePath>.
\* Content omitted. ---" with the path relative to the scanned root, and the
\* file still gets its content block, which holds that marker.
C20_PlainReadErrorMarker ==
    /\ (pc = "reading" /\ IsPlainFile(textFiles[idx])) =>
          \A o \in OutcomesFor(textFiles[idx]) :
              o.step # "ok" =>
                  LET r == readFileContent(textFiles[idx], targetDir, o)
                  IN  r.ok /\ r.value = ReadErrorMarker(textFiles[idx])
    /\ \A i \in DOMAIN results :
          (IsPlainFile(textFiles[i]) /\ results[i] # <<>>
                /\ Head(results[i]) = "--- Error reading file: ") =>
              LET rel == path_relative(targetDir, textFiles[i])
              IN  ContainsSeq(outputBuffer,
                              FileHeader(rel) \o ReadErrorMarker(textFiles[i]) \o <<NL>>
                                  \o FileFooter(rel))

\* C20 witness: a finished report in which the block of a plain file in a
\* subdirectory holds the read-error marker with the path under the root.
C20_Witness ==
    /\ pc = "done"
    /\ \E i \in DOMAIN results :
          /\ IsPlainFile(textFiles[i]) /\ Len(path_relative(targetDir, textFiles[i])) = 2
          /\ results[i] = ReadErrorMarker(textFiles[i])
          /\ ContainsSeq(outputBuffer, results[i])

\* Line k of a tree diagram is the last sibling of its directory: the next
\* line that is not deeper, if there is one, is less deep.
IsLastSiblingLine(lines, k) ==
    \A j \in (k + 1)..Len(lines) :
        (LineDepth(lines[j]) <= LineDepth(lines[k])
            /\ \A m \in (k + 1)..(j - 1) : LineDepth(lines[m]) > LineDepth(lines[k]))
        => LineDepth(lines[j]) < LineDepth(lines[k])

\* The line of the ancestor at depth d (0-based) of line k: the nearest earlier
\* line of that depth.
AncestorLine(lines, k, d) ==
    CHOOSE j \in 1..k :
        /\ LineDepth(lines[j]) = d
        /\ \A m \in (j + 1)..k : LineDepth(lines[m]) > d

\* C21: in the structure string the last emitted sibling of each directory,
\* and only it, has the last-child connector, every other the non-last one
\* (also when discarded entries end the raw listing); a line at depth d starts
\* with d-1 four-character segments, one per ancestor: the bar when that
\* ancestor has a following emitted sibling, four spaces otherwise.
C21_ConnectorsAndIndentation ==
    Traversed =>
        LET lines == SplitLines(structure)
        IN  \A k \in DOMAIN lines :
                LET d == LineDepth(lines[k])
                IN  /\ Len(lines[k]) >= d + 2
                    /\ lines[k][d + 1] =
                          (IF IsLastSiblingLine(lines, k) THEN "+-- " ELSE "|-- ")
                    /\ \A a \in 1..d :
                          lines[k][a] =
                              (IF IsLastSiblingLine(lines, AncestorLine(lines, k, a - 1))
                               THEN "    " ELSE "|   ")

\* C21 witness: a finished walk in which a shown directory with an entry is
\* followed in the raw listing only by a discarded entry.
C21_Witness ==
    /\ pc = "done" /\ Len(tree) = 2
    /\ tree[1].kind = "dir" /\ tree[1].name \notin IGNORED_DIRS /\ Len(tree[1].sub) = 1
    /\ tree[2].name \in IGNORED_DIRS
    /\ structure = <<"+-- ">> \o tree[1].name \o <<NL, "    ", "+-- ">>
                       \o tree[1].sub[1].name \o <<NL>>

\* The extractions in progress: started and not yet settled.
InProgress == Len(started) - Len(results)

\* The step in which readFileContent is called.
C23_StartStep ==
    started' # started =>
        /\ stack = <<>> /\ Traversed /\ textFiles' = textFiles
        /\ InProgress = 0
        /\ started' = Append(started, Len(results) + 1)
        /\ Len(IndicesOf(outputBuffer, "--- End of File: ")) = Len(results)

C23_OneAtATime ==
    /\ InProgress \in {0, 1}
    /\ started = [i \in 1..Len(started) |-> i]
    /\ started # <<>> => Traversed \/ pc = "exit"
    /\ pc = "traverse" => started = <<>>

\* C23: files are extracted one at a time in collected order: at most one
\* extraction is in progress, the extraction of file i+1 starts only after
\* that of file i has resolved and its block has been appended, and none
\* starts before the traversal of the whole tree has returned.
C23_SequentialExtraction == [][C23_StartStep]_vars /\ []C23_OneAtATime

\* C23 witness: a finished report of three extracted files.
C23_Witness == pc = "done" /\ started = <<1, 2, 3>> /\ Len(results) = 3

\* The entries that are neither directory nor regular file: symbolic links
\* (also to an ancestor directory), sockets, FIFOs, devices.
OtherNodes == {n \in AllNodes : n.kind \notin {"dir", "file"}}

C27_OtherEntryOnlyListed ==
    /\ \A n \in OtherNodes :
          /\ n.path \notin Range(listed)
          /\ \A i \in DOMAIN stack : stack[i].dirPath # n.path
          /\ \A i \in DOMAIN textFiles : ~IsPrefix(n.path, textFiles[i])
          /\ (Traversed /\ WasRead(ParentDir(n)) /\ NameOf(n) \notin IGNORED_DIRS)
                => LineCount(n.path) = 1
    /\ \A i, j \in DOMAIN listed : listed[i] = listed[j] => i = j
    /\ Len(stack) <= MaxNodes + 1

C27_WalkReturns == stack = <<>> /\ pc \notin {"start", "generate", "traverse"}

C28_CollectedHaveOneLine ==
    Traversed =>
        LET paths == StructurePaths(structure)
        IN  /\ \A i \in DOMAIN textFiles :
                  /\ \E n \in AllNodes : n.path = textFiles[i] /\ n.kind = "file"
                  /\ LineCountIn(paths, textFiles[i]) = 1
            /\ Len(paths) = Len(ExpectedEntries)

C28_ListStep ==
    /\ IsPrefix(textFiles, textFiles')
    /\ Len(textFiles') <= Len(textFiles) + 1
    /\ pc # "traverse" => textFiles' = textFiles

\* C28: after the traversal every collected path is a regular file with
\* exactly one line in the structure string, the structure string has one
\* line per visited entry, and the collected list only grows by appends
\* during the traversal and is left alone while the report is assembled.
C28_CollectedListInvariant == []C28_CollectedHaveOneLine /\ [][C28_ListStep]_vars

\* C28 witness: a finished report over a walk that collected two files and
\* showed a third entry it did not collect.
C28_Witness ==
    /\ pc = "done" /\ Len(textFiles) = 2 /\ Len(results) = 2
    /\ Len(SplitLines(structure)) = 3

\* What stands between the header line and the footer line of a block.
BlockBody(block, filePath) ==
    LET relativePath == path_relative(targetDir, filePath)
    IN  SubSeq(block, Len(FileHeader(relativePath)) + 1,
               Len(block) - Len(FileFooter(relativePath)))

\* C29: between the header line and the footer line of a block stands the
\* extraction result, token for token, followed by one added newline exactly
\* when the result is non-empty and does not end with a newline; nothing is
\* trimmed, cut or escaped, also when the result holds a line equal to the
\* block's own footer.
C29_BlockHoldsResultUnchanged ==
    called.fn = "Block" =>
        LET relativePath == path_relative(targetDir, called.filePath)
            block == returned.value
            body == BlockBody(block, called.filePath)
            added == SubSeq(body, Len(called.content) + 1, Len(body))
        IN  /\ IsPrefix(FileHeader(relativePath), block)
            /\ SubSeq(block, Len(block) - Len(FileFooter(relativePath)) + 1, Len(block))
                  = FileFooter(relativePath)
            /\ IsPrefix(called.content, body)
            /\ added \in { <<>>, <<NL>> }
            /\ added = <<NL>> <=> (called.content # <<>> /\ Last(called.content) # NL)

\* C29 witness: a result whose only line is the block's own footer line.
C29_Witness ==
    /\ called.fn = "Block"
    /\ called.content = <<"--- End of File: ", "x", " ---", NL>>
    /\ BlockBody(returned.value, called.filePath) = called.content

PrimaryGaveText(env) ==
    env.docling.kind = "ok" /\ ~IsBlank(env.docling.stdout)

\* C30: extractPdfText of the Docling revision returns the output of docling
\* unchanged, without calling the fallback, when docling succeeds with
\* output that is not blank; in every other case it returns the result of
\* exactly one call of the PyPDF2 fallback, which resolves to a string.
C30_PrimaryElseOneFallback ==
    called.fn = "extractPdfText" =>
        LET env == called.env
            fallback == extractPdfTextFallback(called.pdfPath, env)
        IN  /\ ~returned.threw
            /\ fallback.ok /\ fallback.value \in Seq(STRING)
            /\ returned.fallbackCalls <= 1
            /\ IF PrimaryGaveText(env)
               THEN returned.value = env.docling.stdout /\ returned.fallbackCalls = 0
               ELSE returned.value = fallback.value /\ returned.fallbackCalls = 1

\* C30 witness: docling exits with whitespace-only output and the script
\* reports an error on stderr, which becomes the result.
C30_Witness ==
    /\ called.fn = "extractPdfText"
    /\ called.env.docling = [kind |-> "ok", stdout |-> <<" ", NL>>]
    /\ called.env.scriptExists /\ called.env.python.kind = "ok"
    /\ called.env.python.stderr = ScriptError \o <<NL>>
    /\ returned.value = ScriptError /\ returned.fallbackCalls = 1

(***************************************************************************)
(* web_renderer.js: renderAndServe and getAvailablePort.  The ports of     *)
(* 127.0.0.1 are shared with other processes, which bind and release them  *)
(* at any moment.  probe holds one record per call of getAvailablePort,    *)
(* outermost first; gapPromise is the promise of the outermost call, with  *)
(* the number of times resolve or reject was called on it.                 *)
(***************************************************************************)
\* How many ports, from the first one on, the model holds.
NumPorts == 3

StartPort == 3000

Ports == StartPort..(StartPort + NumPorts - 1)

\* Errors of listen() other than EADDRINUSE.
OtherListenErrors == { "EACCES" }

ProbeActive == { i \in DOMAIN probe : probe[i].st \in {"listenCalled", "bound", "closing"} }

\* The probe server of the innermost call.
CurrentProbe == probe[Len(probe)]

SetCurrentProbe(st) == [probe EXCEPT ![Len(probe)].st = st]

\* new Promise(...) of getAvailablePort: createServer and listen on startPort.
NewProbe(startPort) == [port |-> startPort, st |-> "listenCalled"]

Settle(st, value) == [st |-> st, value |-> value, settles |-> gapPromise.settles + 1]

\* renderAndServe up to its await: the page is rendered, the server created
\* and getAvailablePort(3000) called.
CallRenderAndServe ==
    /\ renderPromise = "none"
    /\ renderPromise' = "pending"
    /\ server' = "created"
    /\ probe' = << NewProbe(StartPort) >>
    /\ gapPromise' = [st |-> "pending", value |-> 0, settles |-> 0]
    /\ UNCHANGED << mainVars, called, returned, fetchVars, ports, browser >>

\* The probe's listen takes the port.
ProbeBind ==
    /\ probe # <<>> /\ CurrentProbe.st = "listenCalled"
    /\ ports[CurrentProbe.port] = "free"
    /\ ports' = [ports EXCEPT ![CurrentProbe.port] = "probe"]
    /\ probe' = SetCurrentProbe("bound")
    /\ UNCHANGED << mainVars, called, returned, fetchVars,
                    gapPromise, server, renderPromise, browser >>

\* The probe's 'listening' handler: server.close(callback) gives the port back.
ProbeOnListening ==
    /\ probe # <<>> /\ CurrentProbe.st = "bound"
    /\ ports' = [ports EXCEPT ![CurrentProbe.port] = "free"]
    /\ probe' = SetCurrentProbe("closing")
    /\ UNCHANGED << mainVars, called, returned, fetchVars,
                    gapPromise, server, renderPromise, browser >>

\* The callback of close: resolve(port); the outer promises resolve with it.
ProbeClosed ==
    /\ probe # <<>> /\ CurrentProbe.st = "closing"
    /\ probe' = SetCurrentProbe("closed")
    /\ gapPromise' = Settle("resolved", CurrentProbe.port)
    /\ UNCHANGED << mainVars, called, returned, fetchVars,
                    ports, server, renderPromise, browser >>

\* The probe's 'error' handler with EADDRINUSE: close the probe and call
\* getAvailablePort(startPort + 1).
ProbeInUse ==
    /\ probe # <<>> /\ CurrentProbe.st = "listenCalled"
    /\ ports[CurrentProbe.port] # "free"
    /\ CurrentProbe.port + 1 \in Ports
    /\ probe' = Append(SetCurrentProbe("inuse"), NewProbe(CurrentProbe.port + 1))
    /\ UNCHANGED << mainVars, called, returned, fetchVars,
                    ports, gapPromise, server, renderPromise, browser >>

ProbeOtherError_TryNext ==
    /\ probe # <<>> /\ CurrentProbe.st = "listenCalled"
    /\ CurrentProbe.port + 1 \in Ports
    /\ \E code \in OtherListenErrors :
          probe' = Append(SetCurrentProbe(code), NewProbe(CurrentProbe.port + 1))
    /\ UNCHANGED << mainVars, called, returned, fetchVars,
                    ports, gapPromise, server, renderPromise, browser >>

\* The probe's 'error' handler with any other code: reject(err).
ProbeOtherError ==
    /\ probe # <<>> /\ CurrentProbe.st = "listenCalled"
    /\ \E code \in OtherListenErrors :
          /\ probe' = SetCurrentProbe(code)
          /\ gapPromise' = Settle("rejected", CurrentProbe.port)
    /\ UNCHANGED << mainVars, called, returned, fetchVars,
                    ports, server, renderPromise, browser >>

\* renderAndServe after its await, port found: server.listen(port, callback)
\* and server.on('error', ...) are called and the function returns, which
\* resolves its promise.
RenderListen ==
    /\ renderPromise = "pending" /\ gapPromise.st = "resolved"
    /\ server = "created"
    /\ server' = "listenCalled"
    /\ renderPromise' = "resolved"
    /\ UNCHANGED << mainVars, called, returned, fetchVars,
                    ports, probe, gapPromise, browser >>

\* renderAndServe after its await, getAvailablePort rejected: the catch block
\* logs and throws "Failed to start web server".
RenderCatch ==
    /\ renderPromise = "pending" /\ gapPromise.st = "rejected"
    /\ renderPromise' = "rejected"
    /\ console' = Append(console, "Failed to start web server")
    /\ UNCHANGED << rootKind, tree, pc, stack, textFiles, structure, outputBuffer, idx,
                    clipboard, exitCode, listed, failed, results, started,
                    called, returned, fetchVars,
                    ports, probe, gapPromise, server, browser >>

\* The server's listen takes the port.
ServerBind ==
    /\ server = "listenCalled"
    /\ ports[gapPromise.value] = "free"
    /\ ports' = [ports EXCEPT ![gapPromise.value] = "server"]
    /\ server' = "listening"
    /\ UNCHANGED << mainVars, called, returned, fetchVars,
                    probe, gapPromise, renderPromise, browser >>

\* The callback of listen: log the address and open the browser on it.
ServerOnListening ==
    /\ server = "listening" /\ browser = <<>>
    /\ browser' = Append(browser, gapPromise.value)
    /\ console' = Append(console, "Serving analysis at")
    /\ UNCHANGED << rootKind, tree, pc, stack, textFiles, structure, outputBuffer, idx,
                    clipboard, exitCode, listed, failed, results, started,
                    called, returned, fetchVars,
                    ports, probe, gapPromise, server, renderPromise >>

\* The server's listen fails (EADDRINUSE when the port was taken since the
\* probe closed, or another error): the 'error' handler logs.
ServerListenError ==
    /\ server = "listenCalled"
    /\ \E code \in {"EADDRINUSE"} \cup OtherListenErrors :
          /\ code = "EADDRINUSE" => ports[gapPromise.value] # "free"
          /\ server' = "failed"
    /\ console' = Append(console, "Server runtime error")
    /\ UNCHANGED << rootKind, tree, pc, stack, textFiles, structure, outputBuffer, idx,
                    clipboard, exitCode, listed, failed, results, started,
                    called, returned, fetchVars,
                    ports, probe, gapPromise, renderPromise, browser >>

\* Another process binds a free port.
OtherBinds ==
    /\ renderPromise # "none"
    /\ \E p \in Ports :
          /\ ports[p] = "free"
          /\ ports' = [ports EXCEPT ![p] = "other"]
    /\ UNCHANGED << mainVars, called, returned, fetchVars,
                    probe, gapPromise, server, renderPromise, browser >>

\* Another process gives its port back.
OtherReleases ==
    /\ renderPromise # "none"
    /\ \E p \in Ports :
          /\ ports[p] = "other"
          /\ ports' = [ports EXCEPT ![p] = "free"]
    /\ UNCHANGED << mainVars, called, returned, fetchVars,
                    probe, gapPromise, server, renderPromise, browser >>

InitWeb ==
    /\ rootKind = "dir" /\ tree = <<>> /\ pc = "start" /\ stack = <<>>
    /\ textFiles = <<>> /\ structure = <<>> /\ outputBuffer = <<>> /\ idx = 1
    /\ console = <<>> /\ clipboard = <<>> /\ exitCode = -1
    /\ listed = <<>> /\ failed = {} /\ results = <<>> /\ started = <<>>
    /\ called = NoCall /\ returned = NoCall
    /\ FetchIdle
    /\ ports \in [Ports -> {"free", "other"}]
    /\ probe = <<>> /\ gapPromise = [st |-> "none", value |-> 0, settles |-> 0]
    /\ server = "none" /\ renderPromise = "none" /\ browser = <<>>

NextWeb ==
    \/ CallRenderAndServe
    \/ ProbeBind
    \/ ProbeOnListening
    \/ ProbeClosed
    \/ ProbeInUse
    \/ ProbeOtherError
    \/ RenderListen
    \/ RenderCatch
    \/ ServerBind
    \/ ServerOnListening
    \/ ServerListenError
    \/ OtherBinds
    \/ OtherReleases

SpecWeb == InitWeb /\ [][NextWeb]_vars

\* C24: the promise of renderAndServe is resolved only when the server is
\* listening on the chosen port and the browser has been asked to open the
\* page.
C24_ResolvedOnlyWhenListening ==
    renderPromise = "resolved" =>
        /\ server = "listening"
        /\ ports[gapPromise.value] = "server"
        /\ browser = << gapPromise.value >>

\* C25: when the server of renderAndServe fails to start listening on the
\* port getAvailablePort chose, the promise of renderAndServe is not
\* resolved.
C25_ListenFailureRejects ==
    server = "failed" => renderPromise # "resolved"

C26_ProbesInOrder ==
    /\ \A i \in DOMAIN probe : probe[i].port = StartPort + i - 1
    /\ Cardinality(ProbeActive) <= 1
    /\ ProbeActive \subseteq {Len(probe)}
    /\ \A i \in DOMAIN probe : i < Len(probe) => probe[i].st = "inuse"
    /\ \A p \in Ports : ports[p] = "probe" <=> (probe # <<>> /\ CurrentProbe = [port |-> p, st |-> "bound"])

C26_SettledAsProbed ==
    /\ gapPromise.settles <= 1
    /\ gapPromise.st \in {"resolved", "rejected"} <=> gapPromise.settles = 1
    /\ gapPromise.st = "resolved" <=> (probe # <<>> /\ CurrentProbe.st = "closed")
    /\ gapPromise.st = "resolved" => gapPromise.value = CurrentProbe.port
    /\ gapPromise.st = "rejected" <=> (probe # <<>> /\ CurrentProbe.st \in OtherListenErrors)

C26_ProbeStep ==
    /\ gapPromise.st \in {"resolved", "rejected"} => (gapPromise' = gapPromise /\ probe' = probe)
    /\ Len(probe') > Len(probe) /\ probe # <<>> =>
          /\ Len(probe') = Len(probe) + 1
          /\ CurrentProbe.st = "listenCalled" /\ ports[CurrentProbe.port] # "free"
    /\ (probe # <<>> /\ Len(probe') = Len(probe)
          /\ CurrentProbe.st = "listenCalled" /\ probe'[Len(probe)].st = "bound")
          => ports[CurrentProbe.port] = "free"

\* C26: getAvailablePort probes startPort, startPort + 1, ... one port at a
\* time; it goes to the next port only when the port is in use, resolves with
\* the port of the first probe that listened, after that probe is closed,
\* rejects at the first other error, and settles once.
C26_PortsTriedInOrder ==
    []C26_ProbesInOrder /\ []C26_SettledAsProbed /\ [][C26_ProbeStep]_vars

\* C26 witness: two ports in use, the third free: resolved with the third
\* port after three probes.
C26_Witness ==
    /\ Len(probe) = 3
    /\ gapPromise = [st |-> "resolved", value |-> StartPort + 2, settles |-> 1]

(***************************************************************************)
(* Transcript fetches of one text file, modelled from the specification:   *)
(* one request per distinct video URL of the text, all started together;   *)
(* each completes, with captions or with a failure, at a moment of its     *)
(* own; the text is spliced once every request has completed.              *)
(***************************************************************************)
DistinctUrls(text) == Range(text) \cap VideoUrls

\* The URL occurrences of the text, in text order.
UrlOccurrences(text) ==
    LET isUrl(t) == t \in VideoUrls
    IN  SelectSeq(text, isUrl)

\* What the joined requests say about each URL.
FetchedOk == [u \in VideoUrls |-> u \in DOMAIN fetchState /\ fetchState[u] = "ok"]

AllFetchesCompleted == \A u \in DOMAIN fetchState : fetchState[u] # "pending"

\* The text is read and a request is started for every distinct URL in it.
StartFetches ==
    /\ called = NoCall
    /\ \E text \in Texts :
          /\ called' = [fn |-> "extractPlainText", text |-> text]
          /\ fetchState' = [u \in DistinctUrls(text) |-> "pending"]
    /\ arrival' = <<>>
    /\ UNCHANGED << mainVars, webVars, returned >>

\* One request completes.
FetchCompletes ==
    /\ called.fn = "extractPlainText"
    /\ \E u \in DOMAIN fetchState, outcome \in {"ok", "failed"} :
          /\ fetchState[u] = "pending"
          /\ fetchState' = [fetchState EXCEPT ![u] = outcome]
          /\ arrival' = Append(arrival, u)
    /\ UNCHANGED << mainVars, webVars, called, returned >>

JoinAndSplice_FirstArrival ==
    /\ called.fn = "extractPlainText" /\ returned = NoCall
    /\ arrival # <<>> \/ DOMAIN fetchState = {}
    /\ returned' = [threw |-> FALSE,
                    value |-> spliceTranscripts(called.text, FetchedOk),
                    order |-> UrlOccurrences(called.text)]
    /\ UNCHANGED << mainVars, webVars, called, fetchVars >>

\* The requests are joined and the text is spliced, URL occurrence after URL
\* occurrence in text order.
JoinAndSplice ==
    /\ called.fn = "extractPlainText" /\ returned = NoCall
    /\ AllFetchesCompleted
    /\ returned' = [threw |-> FALSE,
                    value |-> spliceTranscripts(called.text, FetchedOk),
                    order |-> UrlOccurrences(called.text)]
    /\ UNCHANGED << mainVars, webVars, called, fetchVars >>

NextFetch ==
    \/ StartFetches
    \/ FetchCompletes
    \/ JoinAndSplice

SpecFetch == InitUnit /\ [][NextFetch]_vars

C22_AllStartedTogether ==
    called.fn = "extractPlainText" =>
        /\ DOMAIN fetchState = DistinctUrls(called.text)
        /\ Range(arrival) = {u \in DOMAIN fetchState : fetchState[u] # "pending"}
        /\ Len(arrival) = Cardinality(Range(arrival))

C22_SplicedAfterJoin ==
    returned # NoCall =>
        /\ AllFetchesCompleted
        /\ IsSpliced(called.text, returned.value, FetchedOk)
        /\ returned.order = UrlOccurrences(called.text)

C22_FetchStep ==
    /\ DOMAIN fetchState' # DOMAIN fetchState =>
          called = NoCall /\ \A u \in DOMAIN fetchState' : fetchState'[u] = "pending"
    /\ returned # NoCall => (returned' = returned /\ fetchState' = fetchState)

\* C22: the transcript requests for the distinct URLs of one text are all
\* started together, none waiting for another; nothing is inserted before
\* every request has completed; and the insertions follow the order of the
\* URLs in the text, whatever the order in which the requests completed.
C22_FetchesJoinedBeforeSplicing ==
    []C22_AllStartedTogether /\ []C22_SplicedAfterJoin /\ [][C22_FetchStep]_vars

\* C22 witness: two URLs, the request for the second completed first, and
\* the captions of the first stand before the second URL.
C22_Witness ==
    /\ returned # NoCall /\ Len(called.text) = 2
    /\ called.text[1] \in VideoUrls /\ called.text[2] \in VideoUrls
    /\ called.text[1] # called.text[2]
    /\ arrival = << called.text[2], called.text[1] >>
    /\ fetchState[called.text[1]] = "ok" /\ fetchState[called.text[2]] = "ok"
    /\ returned.value = << called.text[1] >> \o Captions(called.text[1])
                          \o << called.text[2] >> \o Captions(called.text[2])

====
